---------------------------- MODULE Spec2Model ----------------------------
(***************************************************************************)
(* Knative autoscaling controller and its training environment.            *)
(*                                                                         *)
(*   - KubernetesEnv (src/model/model.py, src/experiments/model.py): the   *)
(*     gym environment, reset/step over num_pods, cpu_per_pod,             *)
(*     memory_per_pod and current_step.                                    *)
(*   - pipeline.py main(): one control cycle against the cluster           *)
(*     (get_knative_service_settings, run_requests,                        *)
(*     get_service_pod_resources, get_action_from_model, the action        *)
(*     branch, change_settings.py).                                        *)
(*                                                                         *)
(* Python floats that arise from "/ 2" are dyadic rationals; every         *)
(* per-pod resource quantity is held as an integer number of 1/Q units     *)
(* (Q = 16), which represents all values the code can compute exactly      *)
(* (see HalvingExact).                                                     *)
(***************************************************************************)
EXTENDS Integers, Sequences, FiniteSets, TLC

VARIABLES
    \* ---- KubernetesEnv instance --------------------------------------
    variant,          \* "experiments" | "model": which of the two classes
    num_pods,         \* self.num_pods
    cpu_per_pod,      \* self.cpu_per_pod      (in 1/Q units)
    memory_per_pod,   \* self.memory_per_pod   (in 1/Q units)
    current_step,     \* self.current_step
    max_steps,        \* self.max_steps
    terminated,       \* flag returned by the last step call
    truncated,        \* flag returned by the last step call
    state,            \* self.state: what reset or _simulate_environment wrote
    np_seed,          \* what np.random.seed was last called with
    \* ---- bookkeeping about the calls made on the environment ----------
    last,             \* action of the last step call, NoCall after reset
    run,              \* how many times in a row `last` has been applied
    up_from,          \* num_pods before the ScaleUp that the latest
                      \* ScaleUp / ScaleUp;ScaleDown pair started from, else 0
    calls,            \* step calls made since the initial state / last reset
    call,             \* the last call on the environment: "reset" | "step"
    raised,           \* whether that call raised
    tape,             \* the episode on record: per step, action and outputs
    pos,              \* steps replayed against the tape, NoCall when recording
    seed_arg,         \* the seed argument of the last reset call
    \* ---- the cluster (owned by Knative, read and patched by a cycle) ---
    cluster,          \* the service's ScalingConfig, quantities as strings
    revisions,        \* the revisions in the namespace: [name, service]
    latest,           \* the service's status.latestCreatedRevisionName
    \* ---- run_pipeline_loop.py main() ----------------------------------
    loop_pc,          \* "off" when pipeline.py is run by hand, else where the
                      \* loop stands: "loop" | "wait" | "done" | "stopped"
    loop_i,           \* iterations of the loop that are over
    environ,          \* os.environ["CONCURRENCY"]
    started,          \* the CONCURRENCY of each pipeline.py run started so far
    sweep_failed,     \* whether some run ended in CalledProcessError
    \* ---- pipeline.py main(): one process per control cycle ------------
    pc,               \* where main() stands; "idle" when no cycle runs
    cfg,              \* min_scale, max_scale, cpu_request_val, ... locals
    metrics,          \* what get_service_pod_resources summed over
    probed,           \* main()'s concurrency as run_requests returned it, 0 before
    action,           \* <<a>> as returned by get_action_from_model, <<>> for None
    \* ---- what the last (or running) cycle did -------------------------
    fetch,            \* how get_knative_service_settings ended
    infer,            \* how the POST to /predict ended
    result,           \* how the cycle ended
    oracle_calls,     \* calls of get_action_from_model in this cycle
    mutator_calls,    \* runs of change_settings.py in this cycle
    housekeeping,     \* how delete_old_revisions went in this cycle
    deletes,          \* names kubectl delete revision was run on in this cycle
    cluster0,         \* the cluster's ScalingConfig when the cycle started
    cycles,           \* cycles started so far
    silent,           \* the peers that accept a call and never answer it
    \* ---- new_monitor.py monitor_pod_scaling and its sampler thread ----
    mon_pc,           \* where monitor_pod_scaling stands; "off" before the call
    mon_exit,         \* how it left: "none" | "return" | "raise"
    pending,          \* a KeyboardInterrupt is propagating through finally
    stop_event,       \* stop_event.is_set()
    sampler_pc,       \* where resource_monitoring stands; "none": no thread
    samples,          \* calls of get_service_pod_resources by the sampler
    late,             \* those begun after monitor_pod_scaling had left
    elapsed,          \* the 15 s of the sampler's current wait are over
    logged,           \* messages in list_handler.log_messages
    log_file,         \* NoFile, or <<n>>: main wrote n messages to the file
    interrupts,       \* where KeyboardInterrupts reached the main thread
    current_pods,     \* the set of pod names the watch loop keeps
    pod_count,        \* its pod_count
    event,            \* the watch event processed last
    n_events,         \* watch events processed
    \* ---- the quantity parsers, called on their own --------------------
    parse_arg,        \* the string passed
    parse_fn,         \* the function last called on it, "none" before
    parse_out         \* what it returned, or Raised

envVars  == <<variant, num_pods, cpu_per_pod, memory_per_pod, current_step,
              max_steps, terminated, truncated, state, np_seed>>
histVars == <<last, run, up_from, calls, call, raised, tape, pos, seed_arg>>
revVars  == <<revisions, latest>>
loopVars == <<loop_pc, loop_i, environ, started, sweep_failed>>
ctlVars  == <<cluster, pc, cfg, metrics, probed, action, fetch, infer,
              result, oracle_calls, mutator_calls, housekeeping, deletes,
              cluster0, cycles, revVars, loopVars>>
monVars  == <<mon_pc, mon_exit, pending, stop_event, sampler_pc, samples, late,
              elapsed, logged, log_file, interrupts, current_pods,
              pod_count, event, n_events>>
parseVars == <<parse_arg, parse_fn, parse_out>>
sideVars == <<silent, monVars, parseVars>>
vars     == <<envVars, histVars, ctlVars, sideVars>>

Min(a, b) == IF a <= b THEN a ELSE b
Max(a, b) == IF a >= b THEN a ELSE b

-----------------------------------------------------------------------------
(* Representation of Python floats *)

Q == 16

\* an integer quantity as a value in 1/Q units
Num(n) == n * Q

\* Python "x * 2" and "x / 2" on a value in 1/Q units
Twice(x) == 2 * x
Half(x)  == x \div 2

\* The other float arithmetic (+, -, *, /, abs, comparisons) is carried out
\* exactly, on fractions n/d in lowest terms with d > 0.

\* F(a, b), with a and b evaluated once before F is entered
Strict(F(_, _), a, b) == CHOOSE r \in {F(p[1], p[2]) : p \in {<<a, b>>}} : TRUE

RECURSIVE GCD(_, _)
GcdOf(a, b) == IF b = 0 THEN a ELSE GCD(b, a % b)
GCD(a, b) == Strict(GcdOf, a, b)

RatOf(n, d) ==
    LET g == GCD(IF n < 0 THEN 0 - n ELSE n, d)
    IN  [n |-> n \div g, d |-> d \div g]
Rat(n, d) == Strict(RatOf, n, d)

R(i) == [n |-> i, d |-> 1]

\* a value held in 1/Q units, as a fraction
FromQ(x) == Rat(x, Q)

AddOf(a, b) == Rat(a.n * b.d + b.n * a.d, a.d * b.d)
SubOf(a, b) == Rat(a.n * b.d - b.n * a.d, a.d * b.d)
MulOf(a, b) == Rat(a.n * b.n, a.d * b.d)
DivOf(a, b) ==
    IF b.n > 0 THEN Rat(a.n * b.d, a.d * b.n)
    ELSE Rat(0 - a.n * b.d, a.d * (0 - b.n))
AbsOf(a, b) == IF a.n < 0 THEN [n |-> 0 - a.n, d |-> a.d] ELSE a
LeqOf(a, b) == a.n * b.d <= b.n * a.d

RatAdd(a, b) == Strict(AddOf, a, b)
RatSub(a, b) == Strict(SubOf, a, b)
RatMul(a, b) == Strict(MulOf, a, b)
\* b is not zero
RatDiv(a, b) == Strict(DivOf, a, b)
RatAbs(a)    == Strict(AbsOf, a, a)
RatLeq(a, b) == Strict(LeqOf, a, b)

-----------------------------------------------------------------------------
(* KubernetesEnv *)

Variants == {"experiments", "model"}
Actions  == 0 .. 4
NoCall   == 0 - 1

MAX_PODS        == 100
MAX_CPU_PER_POD == 1000
MAX_MEM_PER_POD == 256
MIN_CPU_PER_POD == 100
MIN_MEM_PER_POD == 64
MAX_STEPS       == 100

\* __init__ / reset: the initial per-pod allocation of each class
InitCpu(v) == IF v = "experiments" THEN 200 ELSE 250
InitMem(v) == IF v = "experiments" THEN 64 ELSE 128

\* (mutant) ScaleUp without the MAX_PODS cap
StepPodsNoCap(n, a) ==
    IF a = 1 THEN n + 1
    ELSE IF a = 2 THEN Max(1, n - 1)
    ELSE n

\* (mutant) ScaleDown floored at 0 instead of 1
StepPodsFloorZero(n, a) ==
    IF a = 1 THEN Min(MAX_PODS, n + 1)
    ELSE IF a = 2 THEN Max(0, n - 1)
    ELSE n

\* (mutant) IncreaseResourcesPerPod also adds a pod
StepPodsOnResources(n, a) ==
    IF a = 1 \/ a = 3 THEN Min(MAX_PODS, n + 1)
    ELSE IF a = 2 THEN Max(1, n - 1)
    ELSE n

\* step, "elif action == 1" / "elif action == 2"
StepPods(n, a) ==
    IF a = 1 THEN Min(MAX_PODS, n + 1)
    ELSE IF a = 2 THEN Max(1, n - 1)
    ELSE n

\* (mutant) IncreaseResourcesPerPod without the MAX_CPU_PER_POD cap
StepCpuNoCap(c, a) ==
    IF a = 3 THEN Twice(c)
    ELSE IF a = 4 THEN Max(Num(MIN_CPU_PER_POD), Half(c))
    ELSE c

\* (mutant) DecreaseResourcesPerPod without the floor of 100
StepCpuNoFloor(c, a) ==
    IF a = 3 THEN Min(Twice(c), Num(MAX_CPU_PER_POD))
    ELSE IF a = 4 THEN Half(c)
    ELSE c

\* step, "elif action == 3" / "elif action == 4", CPU
StepCpu(c, a) ==
    IF a = 3 THEN Min(Twice(c), Num(MAX_CPU_PER_POD))
    ELSE IF a = 4 THEN Max(Num(MIN_CPU_PER_POD), Half(c))
    ELSE c

\* step, "elif action == 3" / "elif action == 4", memory
StepMem(m, a) ==
    IF a = 3 THEN Min(Twice(m), Num(MAX_MEM_PER_POD))
    ELSE IF a = 4 THEN Max(Num(MIN_MEM_PER_POD), Half(m))
    ELSE m

\* (mutant) off by one: truncation one step late
TruncatedLate(k, T) == k > T

\* step: "truncated = self.current_step >= self.max_steps"
Truncated(k, T) == k >= T

\* (mutant) the curve normalised to [0, 1] instead of [-1, 1]
GetValueHalfRange(t, total_timesteps, peak_value) ==
    LET normalized_t == RatDiv(R(t), R(total_timesteps))
    IN  RatMul(R(peak_value), RatSub(R(1), RatMul(normalized_t, normalized_t)))

\* get_value_at_timestep(t, total_timesteps, peak_value)
get_value_at_timestep(t, total_timesteps, peak_value) ==
    LET normalized_t ==
            RatSub(RatMul(R(2), RatDiv(R(t), R(total_timesteps))), R(1))
    IN  RatMul(R(peak_value), RatSub(R(1), RatMul(normalized_t, normalized_t)))

\* get_value_at_timestep(self.current_step, self.max_steps, peak), computed
\* once for each step index and each of the two peaks
LoadCurve ==
    [peak \in {100, 10000} |->
        [t \in 0 .. 2 * MAX_STEPS |-> get_value_at_timestep(t, MAX_STEPS, peak)]]

\* The array self.state is held as what its last writer wrote it from:
\* `simulated` is FALSE for the literal of __init__ / reset and TRUE for
\* _simulate_environment, and t, T, pods, cpu, mem are self.current_step,
\* self.max_steps, self.num_pods, self.cpu_per_pod and self.memory_per_pod
\* as the writer read them.  StateAt gives entry i of the array (Python
\* index i - 1), Observation all seven.
Written(sim, t, T, n, c, m) ==
    [simulated |-> sim, t |-> t, T |-> T, pods |-> n, cpu |-> c, mem |-> m]

\* __init__ / reset: np.array([1 or 10, 10, 0, 100, num_pods, cpu, memory])
InitialState(v, st, i) ==
    <<R(IF v = "experiments" THEN 10 ELSE 1), R(10), R(0), R(100),
      R(st.pods), FromQ(st.cpu), FromQ(st.mem)>>[i]

\* experiments/model.py _simulate_environment: the linear usage model
SimulateTraffic(st, i) ==
    LET traffic == IF st.T = MAX_STEPS /\ st.t <= 2 * MAX_STEPS
                   THEN LoadCurve[10000][st.t]
                   ELSE get_value_at_timestep(st.t, st.T, 10000)
        traffic_per_pod == RatDiv(traffic, R(st.pods))
        cpu_needed_per_pod == RatMul(traffic_per_pod, Rat(1, 5))
        mem_needed_per_pod == RatMul(traffic_per_pod, Rat(3, 1000))
        cpu_usage_per_pod ==
            RatMul(RatDiv(RatAdd(Rat(19, 25), cpu_needed_per_pod),
                          FromQ(st.cpu)), R(100))
        mem_usage_per_pod ==
            RatMul(RatDiv(RatAdd(R(12), mem_needed_per_pod),
                          FromQ(st.mem)), R(100))
    IN  CASE i = 1 -> cpu_usage_per_pod
          [] i = 2 -> mem_usage_per_pod
          [] i = 3 -> traffic
          [] i = 4 -> RatDiv(R(100), R(st.pods))
          [] i = 5 -> R(st.pods)
          [] i = 6 -> FromQ(st.cpu)
          [] i = 7 -> FromQ(st.mem)

\* the float k * (1 - math.exp(-x)), k and x fractions: exp is not
\* evaluated, two such values are equal when k and x are
ExpTerm(k, x) == [k |-> k, x |-> x]

\* model/model.py _simulate_environment: the saturating usage model
SimulateConcurrency(st, i) ==
    LET concurrency == IF st.T = MAX_STEPS /\ st.t <= 2 * MAX_STEPS
                       THEN LoadCurve[100][st.t]
                       ELSE get_value_at_timestep(st.t, st.T, 100)
        total_cpu == ExpTerm(R(1500), RatMul(Rat(1, 20), concurrency))
        total_mem == RatMul(Rat(43, 2), R(st.pods))
        cpu_needed_per_pod ==
            ExpTerm(RatDiv(total_cpu.k, R(st.pods)), total_cpu.x)
        mem_needed_per_pod == RatDiv(total_mem, R(st.pods))
        cpu_usage_per_pod ==
            ExpTerm(RatMul(RatDiv(cpu_needed_per_pod.k, FromQ(st.cpu)), R(100)),
                    cpu_needed_per_pod.x)
        mem_usage_per_pod ==
            RatMul(RatDiv(mem_needed_per_pod, FromQ(st.mem)), R(100))
    IN  CASE i = 1 -> cpu_usage_per_pod
          [] i = 2 -> mem_usage_per_pod
          [] i = 3 -> concurrency
          [] i = 4 -> RatMul(Rat(6, 25), concurrency)
          [] i = 5 -> R(st.pods)
          [] i = 6 -> FromQ(st.cpu)
          [] i = 7 -> FromQ(st.mem)

\* (mutant) the load read with noise drawn from the seeded generator
StateAtNoisy(v, st, i) ==
    IF ~st.simulated THEN InitialState(v, st, i)
    ELSE IF i = 3 THEN RatAdd(SimulateTraffic(st, 3), R(np_seed))
    ELSE IF v = "experiments" THEN SimulateTraffic(st, i)
    ELSE SimulateConcurrency(st, i)

\* self.state[i - 1]
StateAt(v, st, i) ==
    IF ~st.simulated THEN InitialState(v, st, i)
    ELSE IF v = "experiments" THEN SimulateTraffic(st, i)
    ELSE SimulateConcurrency(st, i)

\* the array self.state, as step and reset return it
Observation(v, st) == [i \in 1 .. 7 |-> StateAt(v, st, i)]

\* __init__: observation_space = Box(low, high), entry by entry
ObservationLow == <<0, 0, 0, 0, 1, 100, 128>>
ObservationHigh(v) ==
    <<100, 100, IF v = "experiments" THEN 10000 ELSE 100, 1000,
      MAX_PODS, MAX_CPU_PER_POD, MAX_MEM_PER_POD>>

\* the entry x is a float k * (1 - math.exp(-x)) that is not evaluated
IsExpTerm(x) == "k" \in DOMAIN x

\* x > h for certain; for k * (1 - exp(-x)) with k > h this is decided by
\* exp(-x) <= 1 / (1 + x), which holds for every x >= 0
Above(x, h) ==
    IF IsExpTerm(x)
    THEN /\ ~RatLeq(x.k, R(h))
         /\ ~RatLeq(RatSub(R(1), RatDiv(R(h), x.k)),
                    RatDiv(R(1), RatAdd(R(1), x.x)))
    ELSE ~RatLeq(x, R(h))

\* x < l for certain; k * (1 - exp(-x)) is never negative for k, x >= 0
Below(x, l) == IF IsExpTerm(x) THEN FALSE ELSE ~RatLeq(R(l), x)

\* observation_space.contains(obs), up to the entries left undecided
InBox(v, obs) ==
    \A i \in 1 .. 7 :
        ~Above(obs[i], ObservationHigh(v)[i]) /\ ~Below(obs[i], ObservationLow[i])

\* the seed argument of reset: None, or an integer
NoSeed  == [given |-> FALSE, value |-> 0]
Seed(s) == [given |-> TRUE, value |-> s]

\* np.random.seed has not been called by this environment
Unseeded == 0 - 1

\* super().reset(seed=seed) and np.random.seed(seed) raise on a negative
\* integer (np.random.seed also above 2**32 - 1, beyond the seeds drawn here)
SeedAccepted(seed) == ~seed.given \/ seed.value >= 0

\* __init__: the state of a freshly constructed environment of class v
EnvInit(v) ==
    /\ variant = v
    /\ num_pods = 1
    /\ cpu_per_pod = Num(InitCpu(v))
    /\ memory_per_pod = Num(InitMem(v))
    /\ max_steps = MAX_STEPS
    /\ current_step = 0
    /\ terminated = FALSE
    /\ truncated = FALSE
    /\ state = Written(FALSE, 0, MAX_STEPS, 1, Num(InitCpu(v)), Num(InitMem(v)))
    /\ np_seed = Unseeded

\* (mutant) reset that leaves num_pods as the episode before left it
ResetKeepsPods(seed) ==
    /\ np_seed' = IF seed.given THEN seed.value ELSE 42
    /\ cpu_per_pod' = Num(InitCpu(variant))
    /\ memory_per_pod' = Num(InitMem(variant))
    /\ state' = Written(FALSE, 0, MAX_STEPS, num_pods,
                        Num(InitCpu(variant)), Num(InitMem(variant)))
    /\ max_steps' = MAX_STEPS
    /\ current_step' = 0
    /\ terminated' = FALSE
    /\ truncated' = FALSE
    /\ UNCHANGED <<variant, num_pods>>

\* reset(seed): a seed that is refused raises before anything is assigned;
\* the seed only reaches np.random.seed, which no step reads
reset(seed) ==
    IF SeedAccepted(seed)
    THEN /\ np_seed' = IF seed.given THEN seed.value ELSE 42
         /\ num_pods' = 1
         /\ cpu_per_pod' = Num(InitCpu(variant))
         /\ memory_per_pod' = Num(InitMem(variant))
         /\ state' = Written(FALSE, 0, MAX_STEPS, 1,
                             Num(InitCpu(variant)), Num(InitMem(variant)))
         /\ max_steps' = MAX_STEPS
         /\ current_step' = 0
         /\ terminated' = FALSE
         /\ truncated' = FALSE
         /\ UNCHANGED variant
    ELSE UNCHANGED envVars

\* (mutant) _simulate_environment called before the action is applied
StepSimulatesFirst(a) ==
    /\ current_step' = current_step + 1
    /\ num_pods' = StepPods(num_pods, a)
    /\ cpu_per_pod' = StepCpu(cpu_per_pod, a)
    /\ memory_per_pod' = StepMem(memory_per_pod, a)
    /\ terminated' = FALSE
    /\ state' = Written(TRUE, current_step + 1, max_steps,
                        num_pods, cpu_per_pod, memory_per_pod)
    /\ truncated' = Truncated(current_step + 1, max_steps)
    /\ UNCHANGED <<variant, max_steps, np_seed>>

\* step(action)
step(a) ==
    /\ current_step' = current_step + 1
    /\ num_pods' = StepPods(num_pods, a)
    /\ cpu_per_pod' = StepCpu(cpu_per_pod, a)
    /\ memory_per_pod' = StepMem(memory_per_pod, a)
    /\ terminated' = FALSE
    /\ state' = Written(TRUE, current_step + 1, max_steps,
                        StepPods(num_pods, a), StepCpu(cpu_per_pod, a),
                        StepMem(memory_per_pod, a))
    /\ truncated' = Truncated(current_step + 1, max_steps)
    /\ UNCHANGED <<variant, max_steps, np_seed>>

\* A reward is held as [bell, rest]: rest is a fraction, and bell is <<>>
\* or <<u>> for the float 0.5 * np.exp(-((u - 80) / 10) ** 2) added to it.

\* (mutant) the pod term added instead of subtracted
RewardBandedBonus(obs, n) ==
    LET cpu == RatMul(R(100), RatSub(R(1),
                   RatDiv(RatAbs(RatSub(obs[1], R(50))), R(25))))
        mem == RatMul(R(100), RatSub(R(1),
                   RatDiv(RatAbs(RatSub(obs[2], R(50))), R(50))))
        lat == RatDiv(R(50), obs[4])
    IN  [bell |-> <<>>,
         rest |-> RatAdd(RatAdd(RatAdd(cpu, mem), lat), RatMul(R(15), R(n)))]

\* experiments/model.py _calculate_reward: the banded reward
RewardBanded(obs, n) ==
    LET cpu_usage == obs[1]
        mem_usage == obs[2]
        latency == obs[4]
        cpu == RatMul(R(100), RatSub(R(1),
                   RatDiv(RatAbs(RatSub(cpu_usage, R(50))), R(25))))
        mem == RatMul(R(100), RatSub(R(1),
                   RatDiv(RatAbs(RatSub(mem_usage, R(50))), R(50))))
        lat == RatDiv(R(50), latency)
    IN  [bell |-> <<>>,
         rest |-> RatSub(RatAdd(RatAdd(cpu, mem), lat), RatMul(R(15), R(n)))]

\* model/model.py _calculate_reward: Gaussian CPU term and toy latency
RewardGaussian(obs, n) ==
    LET cpu_usage == obs[1]
        concurrency == obs[3]
        concurrency_per_pod ==
            IF n > 0 THEN RatDiv(concurrency, R(n)) ELSE concurrency
        toy_latency ==
            RatAdd(RatAdd(R(10), RatMul(Rat(1, 20), concurrency_per_pod)),
                   RatMul(Rat(1, 10), R(n)))
        toy_latency_reward == RatDiv(R(1), RatAdd(R(1), toy_latency))
    IN  [bell |-> <<cpu_usage>>, rest |-> RatMul(Rat(1, 2), toy_latency_reward)]

\* _calculate_reward of class v on self.state = obs and self.num_pods = n
calculate_reward(v, obs, n) ==
    IF v = "experiments" THEN RewardBanded(obs, n) ELSE RewardGaussian(obs, n)

\* r1 <= r2, for two rewards with the same Gaussian term
RewardLeq(r1, r2) == r1.bell = r2.bell /\ RatLeq(r1.rest, r2.rest)

\* what the last step call returned: (state, reward, terminated, truncated,
\* info)
Outputs ==
    [obs |-> Observation(variant, state),
     reward |-> calculate_reward(variant, Observation(variant, state), num_pods),
     terminated |-> terminated,
     truncated |-> truncated,
     info |-> [num_pods |-> num_pods, cpu_per_pod |-> cpu_per_pod,
               memory_per_pod |-> memory_per_pod]]

-----------------------------------------------------------------------------
(* Quantity strings of the cluster API: a number and a unit suffix *)

Qty(n, u) == [n |-> n, u |-> u]

\* pipeline.py parse_cpu: "500m" -> 500, "1" -> 1000 (millicores)
parse_cpu(s) == IF s.u = "m" THEN Num(s.n) ELSE Num(s.n) * 1000

\* float() raises ValueError on what is left when the suffix is not "m"
cpu_parses(s) == s.u \in {"m", ""}

\* pipeline.py parse_memory: units Ki, Mi, Gi, Ti; anything else is float()
parse_memory(s) ==
    IF s.u = "Ki" THEN Num(s.n) \div 1024
    ELSE IF s.u = "Mi" THEN Num(s.n)
    ELSE IF s.u = "Gi" THEN Num(s.n) * 1024
    ELSE IF s.u = "Ti" THEN Num(s.n) * 1048576
    ELSE Num(s.n)

memory_parses(s) == s.u \in {"Ki", "Mi", "Gi", "Ti", ""}

\* f"{int(v)}m" and f"{int(v)}Mi": int() truncates towards zero
FormatCpu(v) == Qty(v \div Q, "m")
FormatMem(v) == Qty(v \div Q, "Mi")

-----------------------------------------------------------------------------
(* get_knative_service_settings *)

\* the values returned when kubectl fails (CalledProcessError)
DefaultSettings ==
    [min_scale |-> 1, max_scale |-> 1,
     cpu_request |-> Qty(200, "m"), mem_request |-> Qty(256, "Mi"),
     cpu_limit |-> Qty(200, "m"), mem_limit |-> Qty(256, "Mi")]

FetchOutcomes == {"ok", "kubectl_failed", "malformed"}

\* what the function returns: the cluster's record, or the defaults
get_knative_service_settings(outcome) == IF outcome = "ok" THEN cluster ELSE DefaultSettings

\* main(), lines 70-78: unpack and parse the settings
ParsedSettings(s) ==
    [min_scale |-> s.min_scale, max_scale |-> s.max_scale,
     cpu_request_val |-> parse_cpu(s.cpu_request),
     memory_request_val |-> parse_memory(s.mem_request),
     cpu_limit_val |-> parse_cpu(s.cpu_limit),
     memory_limit_val |-> parse_memory(s.mem_limit)]

SettingsParse(s) ==
    /\ cpu_parses(s.cpu_request) /\ cpu_parses(s.cpu_limit)
    /\ memory_parses(s.mem_request) /\ memory_parses(s.mem_limit)

NoSettings ==
    [min_scale |-> 0, max_scale |-> 0, cpu_request_val |-> 0,
     memory_request_val |-> 0, cpu_limit_val |-> 0, memory_limit_val |-> 0]

-----------------------------------------------------------------------------
(* get_action_from_model (ML.py) and the action branch of main() *)

\* how the POST to /predict can end
InferFailures == {"connection_failed", "non_2xx", "unparseable_body",
                  "no_action_field"}
InferOutcomes == InferFailures \cup {"reply"}

\* the integers a reply's action field is drawn from
MaxReply == 6
ReplyValues == (0 - 1) .. MaxReply

\* (mutant) a reply without an action field is read as action 0
GetActionGuess(outcome, a) ==
    IF outcome = "reply" \/ outcome = "no_action_field" THEN <<a>> ELSE <<>>

\* get_action_from_model: the action of a good reply, None otherwise
get_action_from_model(outcome, a) == IF outcome = "reply" THEN <<a>> ELSE <<>>

\* (mutant) no final else: an unknown value falls through like action 0
RecognisedAny(a) == TRUE

\* main(), lines 113-138: the if/elif chain has a branch for a
Recognised(a) == a \in {0, 1, 2, 3, 4}

\* (mutant) the scale actions move max_scale only
TranslateScaleNoPin(c, a) ==
    IF a = 1 THEN [c EXCEPT !.max_scale = c.max_scale + 1]
    ELSE IF a = 2 THEN [c EXCEPT !.max_scale = Max(1, c.max_scale - 1)]
    ELSE c

\* main(), lines 116-123: the scale actions
TranslateScale(c, a) ==
    IF a = 1 THEN [c EXCEPT !.max_scale = c.max_scale + 1,
                            !.min_scale = c.max_scale + 1]
    ELSE IF a = 2 THEN [c EXCEPT !.max_scale = Max(1, c.max_scale - 1),
                                 !.min_scale = Max(1, c.max_scale - 1)]
    ELSE c

\* main(), lines 124-135: the resource actions
TranslateResources(c, a) ==
    IF a = 3 THEN [c EXCEPT !.cpu_request_val = Twice(c.cpu_request_val),
                            !.memory_request_val = Twice(c.memory_request_val),
                            !.cpu_limit_val = Twice(c.cpu_limit_val),
                            !.memory_limit_val = Twice(c.memory_limit_val)]
    ELSE IF a = 4 THEN
        [c EXCEPT !.cpu_request_val = Max(Num(100), Half(c.cpu_request_val)),
                  !.memory_request_val = Max(Num(128), Half(c.memory_request_val)),
                  !.cpu_limit_val = Max(Num(100), Half(c.cpu_limit_val)),
                  !.memory_limit_val = Max(Num(128), Half(c.memory_limit_val))]
    ELSE c

\* main(), lines 113-135
Translate(c, a) == TranslateResources(TranslateScale(c, a), a)

\* main(), lines 140-162: the arguments change_settings.py is run with,
\* which update_knative_service_all puts in one patch body
PatchOf(c) ==
    [min_scale |-> c.min_scale, max_scale |-> c.max_scale,
     cpu_request |-> FormatCpu(c.cpu_request_val),
     mem_request |-> FormatMem(c.memory_request_val),
     cpu_limit |-> FormatCpu(c.cpu_limit_val),
     mem_limit |-> FormatMem(c.memory_limit_val)]

-----------------------------------------------------------------------------
(* get_service_pod_resources *)

\* pods the label selector can match at the time of the call
MaxLivePods == 2

NoMetrics == [live |-> 0, measured |-> 0, taken |-> FALSE]

\* the function returned totals: summed over `measured` of `live` pods
\* (pods without an entry in the metrics map are skipped; no pods: 0, 0)
Totals(l, m) == [live |-> l, measured |-> m, taken |-> TRUE]

-----------------------------------------------------------------------------
(* pipeline.py main(): one control cycle *)

MaxCycles == 2

NAMESPACE    == "default"
SERVICE_NAME == "hello"

\* the status pipeline.py exits with after ending as r: an uncaught
\* exception and sys.exit(1) give 1, a return from main() gives 0
ExitCode(r) == IF r \in {"crashed", "telemetry_failed"} THEN 1 ELSE 0

\* the process ends: its locals are gone
EndCycle(r) ==
    /\ pc' = "idle"
    /\ result' = r
    /\ cfg' = NoSettings
    /\ metrics' = NoMetrics
    /\ probed' = 0

\* lines 65-78: get_knative_service_settings, then parse_cpu / parse_memory
FetchConfig(outcome) ==
    /\ pc = "idle"
    /\ cycles' = cycles + 1
    /\ cluster0' = cluster
    /\ fetch' = outcome
    /\ infer' = "none"
    /\ action' = <<>>
    /\ oracle_calls' = 0
    /\ mutator_calls' = 0
    /\ housekeeping' = "none"
    /\ deletes' = {}
    /\ IF outcome = "malformed" \/ ~SettingsParse(get_knative_service_settings(outcome))
       THEN \* KeyError / ValueError: uncaught, the process dies
            EndCycle("crashed")
       ELSE /\ pc' = "url"
            /\ result' = "running"
            /\ cfg' = ParsedSettings(get_knative_service_settings(outcome))
            /\ metrics' = NoMetrics
            /\ probed' = 0
    /\ UNCHANGED <<cluster, revVars, envVars, histVars, sideVars>>

\* what a cycle calls and waits for: the service under load (through hey),
\* the metrics API, the Policy Oracle
Peers == {"service", "metrics", "oracle"}

\* whether the call to the peer is bounded in time: hey is run with
\* "-z <duration>s" (send_requests.py:27-33); requests.post (ML.py:34) and
\* the Kubernetes client calls (get_resources.py:32, 45) are given no
\* timeout
HasTimeout(peer) == peer = "service"

\* the call to the peer comes to an end, as a failure if failed: a peer
\* that never answers ends only a bounded call, as a failure
CallEnds(peer, failed) == peer \in silent => HasTimeout(peer) /\ failed

\* run_requests, lines 110-114: get_service_url
get_service_url(outcome) ==
    /\ pc = "url"
    /\ IF outcome = "ok"
       THEN pc' = "probe" /\ UNCHANGED <<result, cfg, metrics, probed>>
       ELSE \* kn failed or printed nothing: sys.exit(1)
            EndCycle("telemetry_failed")
    /\ UNCHANGED <<cluster, action, fetch, infer, oracle_calls, mutator_calls,
                   housekeeping, deletes, cluster0, cycles, revVars, loopVars,
                   envVars, histVars, sideVars>>

\* (mutant) the Policy Oracle asked right after the load probe
SendRequestsThenInfer(outcome) ==
    /\ pc = "probe"
    /\ IF outcome = "ok"
       THEN /\ pc' = "infer"
            /\ probed' = environ
            /\ UNCHANGED <<result, cfg, metrics>>
       ELSE EndCycle("telemetry_failed")
    /\ UNCHANGED <<cluster, action, fetch, infer, oracle_calls, mutator_calls,
                   housekeeping, deletes, cluster0, cycles, revVars, loopVars,
                   envVars, histVars, sideVars>>

\* run_requests, lines 107-122: CONCURRENCY, send_requests (hey), its parse
send_requests(outcome) ==
    /\ pc = "probe"
    /\ CallEnds("service", outcome # "ok")
    /\ IF outcome = "ok"
       THEN /\ pc' = "metrics"
            /\ probed' = environ
            /\ UNCHANGED <<result, cfg, metrics>>
       ELSE \* hey failed, or its output did not parse: sys.exit(1)
            EndCycle("telemetry_failed")
    /\ UNCHANGED <<cluster, action, fetch, infer, oracle_calls, mutator_calls,
                   housekeeping, deletes, cluster0, cycles, revVars, loopVars,
                   envVars, histVars, sideVars>>

\* main(), lines 82-86: get_service_pod_resources and the None test
get_service_pod_resources(outcome, l, m) ==
    /\ pc = "metrics"
    /\ CallEnds("metrics", outcome # "ok")
    /\ IF outcome = "ok"
       THEN \* totals are never None: the else branch of line 86 is dead
            /\ pc' = "infer"
            /\ metrics' = Totals(l, m)
            /\ UNCHANGED <<result, cfg, probed>>
       ELSE \* ApiException: sys.exit(1)
            EndCycle("telemetry_failed")
    /\ UNCHANGED <<cluster, action, fetch, infer, oracle_calls, mutator_calls,
                   housekeeping, deletes, cluster0, cycles, revVars, loopVars,
                   envVars, histVars, sideVars>>

\* main(), lines 97-138: get_action_from_model and the action branch
Infer(outcome, a) ==
    /\ pc = "infer"
    /\ CallEnds("oracle", outcome # "reply")
    /\ oracle_calls' = oracle_calls + 1
    /\ infer' = outcome
    /\ action' = get_action_from_model(outcome, a)
    /\ IF action' = <<>>
       THEN EndCycle("infer_failed")
       ELSE IF Recognised(action'[1])
       THEN /\ pc' = "apply"
            /\ cfg' = Translate(cfg, action'[1])
            /\ UNCHANGED <<result, metrics, probed>>
       ELSE EndCycle("unknown_action")
    /\ UNCHANGED <<cluster, fetch, mutator_calls, housekeeping, deletes,
                   cluster0, cycles, revVars, loopVars, envVars, histVars, sideVars>>

\* (mutant) a patch that fails half way: annotations in, resources not
UpdatePartial(k, c, ok) ==
    IF ok THEN PatchOf(c)
    ELSE [k EXCEPT !.min_scale = c.min_scale, !.max_scale = c.max_scale]

\* update_knative_service_all: the service after the one
\* patch_namespaced_custom_object call, which succeeds or changes nothing
update_knative_service_all(k, c, ok) == IF ok THEN PatchOf(c) ELSE k

\* (mutant) the list of revisions not filtered by the service label
StaleOfAnyService(revs, newest) ==
    {r.name : r \in {x \in revs : x.name # newest}}

\* delete_old_revisions, lines 179-182 and 190: the service's revisions
\* other than the latest, among revs
StaleRevisions(revs, newest) ==
    {r.name : r \in {x \in revs : x.service = SERVICE_NAME /\ x.name # newest}}

\* (mutant) the loop left at the first deletion that fails
AttemptedUntilFailure(stale, failed) ==
    {n \in stale : \A f \in failed : n <= f}

\* delete_old_revisions, lines 188-199: the names kubectl delete is run on,
\* when it fails (CalledProcessError) for those in failed
Attempted(stale, failed) == stale

\* how delete_old_revisions can go: through to the loop, an exception of
\* the API calls before it, no latestCreatedRevisionName in the status
HousekeepingOutcomes == {"ok", "api_error", "no_latest"}

\* names of revisions: a patch makes a new revision only below this name
MaxRevisions == 3

\* main(), lines 140-167: run change_settings.py once; its main() calls
\* update_knative_service_all (sys.exit(1) on failure) and then
\* delete_old_revisions.  fresh: Knative made a revision for the patch.
change_settings(ok, fresh, hk, failed) ==
    /\ pc = "apply"
    /\ mutator_calls' = mutator_calls + 1
    /\ cluster' = update_knative_service_all(cluster, cfg, ok)
    /\ IF ok
       THEN LET newest == IF fresh THEN latest + 1 ELSE latest
                made == IF fresh
                        THEN revisions \cup
                                 {[name |-> newest, service |-> SERVICE_NAME]}
                        ELSE revisions
                stale == StaleRevisions(made, newest)
                tried == IF hk = "ok" THEN Attempted(stale, failed) ELSE {}
            IN  /\ latest' = newest
                /\ housekeeping' = hk
                /\ deletes' = tried
                /\ revisions' =
                       {r \in made : ~(r.service = SERVICE_NAME
                                        /\ r.name \in tried \ failed)}
       ELSE UNCHANGED <<revVars, housekeeping, deletes>>
    /\ EndCycle(IF ok THEN "applied" ELSE "apply_failed")
    /\ UNCHANGED <<action, fetch, infer, oracle_calls, cluster0, cycles,
                   loopVars, envVars, histVars, sideVars>>

\* python3 pipeline.py, run by hand
RunPipeline(outcome) ==
    /\ loop_pc = "off"
    /\ cycles < MaxCycles
    /\ FetchConfig(outcome)
    /\ UNCHANGED loopVars

-----------------------------------------------------------------------------
(* run_pipeline_loop.py main() *)

concurrency_levels == <<5, 10, 20, 30, 40, 50, 75, 100>>
repetitions        == 1

\* the CONCURRENCY of iteration i (from 0) of the two nested loops
LevelOf(i) == concurrency_levels[(i \div repetitions) + 1]
Iterations == Len(concurrency_levels) * repetitions

\* (mutant) a failed run ends the loop
ContinuesIfZero(code) == code = 0

\* lines 30-36: "except subprocess.CalledProcessError: continue", else
\* sleep: the loop goes on to its next iteration either way
Continues(code) == TRUE

\* (mutant) pipeline.py started and not waited for
ChildNotAwaited(p) == TRUE

\* line 31: subprocess.run returns (or raises) when the child process,
\* whose position is p, has ended
ChildExited(p) == p = "idle"

\* lines 23-31: set the environment and start pipeline.py
SweepIteration(outcome) ==
    /\ loop_pc = "loop"
    /\ loop_i < Iterations
    /\ environ' = LevelOf(loop_i)
    /\ started' = Append(started, LevelOf(loop_i))
    /\ loop_pc' = "wait"
    /\ FetchConfig(outcome)
    /\ UNCHANGED <<loop_i, sweep_failed>>

\* lines 31-36: subprocess.run returns or raises CalledProcessError
PipelineExited ==
    /\ loop_pc = "wait"
    /\ ChildExited(pc)
    /\ sweep_failed' = (sweep_failed \/ ExitCode(result) # 0)
    /\ IF Continues(ExitCode(result))
       THEN /\ loop_i' = loop_i + 1
            /\ loop_pc' = IF loop_i + 1 < Iterations THEN "loop" ELSE "done"
       ELSE /\ loop_pc' = "stopped"
            /\ UNCHANGED loop_i
    /\ UNCHANGED <<cluster, pc, cfg, metrics, probed, action, fetch, infer,
                   result, oracle_calls, mutator_calls, housekeeping, deletes,
                   cluster0, cycles, revVars, environ, started,
                   envVars, histVars, sideVars>>

-----------------------------------------------------------------------------
(* The quantity parsers of pipeline.py and get_resources.py, float results  *)
(* kept exact as m * 2^e2 * 5^e5 (1024^4 and 1000^4 do not fit an integer   *)
(* of the checker)                                                           *)

RECURSIVE PowerIn(_, _)
\* how many times p divides m (m # 0)
PowerIn(m, p) == IF m % p = 0 THEN 1 + PowerIn(m \div p, p) ELSE 0

RECURSIVE Pow(_, _)
Pow(b, e) == IF e = 0 THEN 1 ELSE b * Pow(b, e - 1)

\* the number m * 2^a * 5^b, m >= 0, in its one normal form
Sci(m, a, b) ==
    IF m = 0 THEN [m |-> 0, e2 |-> 0, e5 |-> 0]
    ELSE LET k2 == PowerIn(m, 2)
             k5 == PowerIn(m, 5)
         IN  [m |-> m \div (Pow(2, k2) * Pow(5, k5)), e2 |-> a + k2, e5 |-> b + k5]

\* x * 2^a * 5^b
SciScale(x, a, b) == Sci(x.m, x.e2 + a, x.e5 + b)

\* a call that returned v, and one that raised ValueError
Returned(v) == [ok |-> TRUE, v |-> v]
ValueError  == [ok |-> FALSE, v |-> Sci(0, 0, 0)]
NotCalled   == [ok |-> FALSE, v |-> Sci(1, 0, 0)]

\* the characters after the number in a quantity string
Chars(u) ==
    CASE u = ""   -> <<>>
      [] u = "n"  -> <<"n">>
      [] u = "u"  -> <<"u">>
      [] u = "m"  -> <<"m">>
      [] u = "k"  -> <<"k">>
      [] u = "K"  -> <<"K">>
      [] u = "M"  -> <<"M">>
      [] u = "G"  -> <<"G">>
      [] u = "T"  -> <<"T">>
      [] u = "Ki" -> <<"K", "i">>
      [] u = "Mi" -> <<"M", "i">>
      [] u = "Gi" -> <<"G", "i">>
      [] u = "Ti" -> <<"T", "i">>

\* str.endswith(unit), on the characters after the number (the number is
\* digits, which end with no unit)
EndsWith(s, unit) ==
    LET c == Chars(s.u)
        k == Len(Chars(unit))
    IN  k <= Len(c) /\ SubSeq(c, Len(c) - k + 1, Len(c)) = Chars(unit)

\* float(s[:-len(unit)]) for a string that ends with unit, times
\* 2^a * 5^b: ValueError unless only the number is left
FloatBefore(s, unit, a, b) ==
    IF Chars(s.u) = Chars(unit) THEN Returned(Sci(s.n, a, b)) ELSE ValueError

\* float(s): ValueError unless the string is a number
Float(s, a, b) == FloatBefore(s, "", a, b)

\* (mutant) parse_cpu_usage taking nanocores for microcores
ParseCpuUsageNanoAsMicro(s) ==
    IF EndsWith(s, "n") \/ EndsWith(s, "u") THEN FloatBefore(s, s.u, 0 - 3, 0 - 3)
    ELSE IF EndsWith(s, "m") THEN FloatBefore(s, "m", 0, 0)
    ELSE Float(s, 3, 3)

\* get_resources.py parse_cpu_usage, in millicores
parse_cpu_usage(s) ==
    IF EndsWith(s, "n") THEN FloatBefore(s, "n", 0 - 6, 0 - 6)
    ELSE IF EndsWith(s, "u") THEN FloatBefore(s, "u", 0 - 3, 0 - 3)
    ELSE IF EndsWith(s, "m") THEN FloatBefore(s, "m", 0, 0)
    ELSE Float(s, 3, 3)

\* pipeline.py parse_cpu with its float result, in millicores
parse_cpu_float(s) ==
    IF EndsWith(s, "m") THEN FloatBefore(s, "m", 0, 0) ELSE Float(s, 3, 3)

\* the units dict of parse_memory_usage in its order, factor 2^a * 5^b
usage_units ==
    <<[unit |-> "Ki", a |-> 10, b |-> 0], [unit |-> "Mi", a |-> 20, b |-> 0],
      [unit |-> "Gi", a |-> 30, b |-> 0], [unit |-> "Ti", a |-> 40, b |-> 0],
      [unit |-> "K", a |-> 3, b |-> 3],   [unit |-> "M", a |-> 6, b |-> 6],
      [unit |-> "G", a |-> 9, b |-> 9],   [unit |-> "T", a |-> 12, b |-> 12]>>

\* the units dict of pipeline.py parse_memory in its order
memory_units ==
    <<[unit |-> "Ki", a |-> 0 - 10, b |-> 0], [unit |-> "Mi", a |-> 0, b |-> 0],
      [unit |-> "Gi", a |-> 10, b |-> 0],     [unit |-> "Ti", a |-> 20, b |-> 0]>>

RECURSIVE FirstUnit(_, _, _)
\* "for unit in units: if s.endswith(unit): return float(...) * factor",
\* from the i-th entry on; float(s) when the loop ends
FirstUnit(s, units, i) ==
    IF i > Len(units) THEN Float(s, 0, 0)
    ELSE IF EndsWith(s, units[i].unit)
         THEN FloatBefore(s, units[i].unit, units[i].a, units[i].b)
         ELSE FirstUnit(s, units, i + 1)

\* get_resources.py parse_memory_usage, in bytes
parse_memory_usage(s) == FirstUnit(s, usage_units, 1)

\* pipeline.py parse_memory with its float result, in MiB
parse_memory_float(s) == FirstUnit(s, memory_units, 1)

\* the numbers and suffixes of the strings the parsers are called on
ParseNumbers == {0, 1, 3, 64, 250, 256, 1000, 1024, 1536}
ParseUnits == {"", "n", "u", "m", "k", "K", "M", "G", "T", "Ki", "Mi", "Gi", "Ti"}
ParseStrings == {Qty(n, u) : n \in ParseNumbers, u \in ParseUnits}
Parsers == {"parse_cpu", "parse_cpu_usage", "parse_memory", "parse_memory_usage"}

\* f(s)
Parse(f, s) ==
    CASE f = "parse_cpu" -> parse_cpu_float(s)
      [] f = "parse_cpu_usage" -> parse_cpu_usage(s)
      [] f = "parse_memory" -> parse_memory_float(s)
      [] f = "parse_memory_usage" -> parse_memory_usage(s)

\* no parser has been called on its own
ParseOff ==
    /\ parse_arg = Qty(0, "")
    /\ parse_fn = "none"
    /\ parse_out = NotCalled

\* one of the parsers is called on a string
CallParser(f, s) ==
    /\ parse_arg' = s
    /\ parse_fn' = f
    /\ parse_out' = Parse(f, s)
    /\ UNCHANGED <<envVars, histVars, ctlVars, silent, monVars>>

-----------------------------------------------------------------------------
(* The request pipeline.py sends to /predict, and what app.py requires *)

\* the float m * 2^e2 * 5^e5 as a fraction
SciToRat(x) ==
    Rat(x.m * Pow(2, Max(x.e2, 0)) * Pow(5, Max(x.e5, 0)),
        Pow(2, Max(0 - x.e2, 0)) * Pow(5, Max(0 - x.e5, 0)))

\* what the metrics API reports for the one container of each pod it has
\* an entry for: 250 millicores, 64 MiB
PodUsage == [cpu |-> Qty(250000000, "n"), memory |-> Qty(65536, "Ki")]

\* what hey printed as "Average: ... secs"
HeyAverage == Rat(1, 20)

\* get_resources.py, lines 54-84: the sums over the pods with metrics,
\* millicores and bytes
total_cpu_usage ==
    RatMul(R(metrics.measured), SciToRat(parse_cpu_usage(PodUsage.cpu).v))
total_memory_usage ==
    RatMul(R(metrics.measured), SciToRat(parse_memory_usage(PodUsage.memory).v))

\* pipeline.py, lines 87-105, and ML.py, lines 23-31: the JSON body of the
\* POST, from main()'s locals before the action branch
RequestBody ==
    [cpu_usage |-> total_cpu_usage,
     memory_usage |-> RatDiv(total_memory_usage, R(1024 * 1024)),
     concurrency |-> R(probed),
     latency |-> HeyAverage,
     num_pods |-> R(cfg.max_scale),
     cpu_per_pod |-> FromQ(cfg.cpu_request_val),
     memory_per_pod |-> FromQ(cfg.memory_request_val)]

\* app.py, lines 13-20: the fields of Observation, none with a default
ObservationFields ==
    {"cpu_usage", "memory_usage", "traffic_per_second", "latency",
     "num_pods", "cpu_per_pod", "memory_per_pod"}

\* app.py, lines 22-23: FastAPI validates the body against Observation
\* (422 when a required field is missing; fields it does not know are
\* ignored; every value here is a number)
Accepts(body) == ObservationFields \subseteq DOMAIN body

\* model.py _simulate_environment, lines 129-135: usage per pod as a
\* percentage of the per-pod allocation
UsagePercent(total, pods, per_pod) ==
    RatMul(RatDiv(RatDiv(total, pods), per_pod), R(100))

-----------------------------------------------------------------------------
(* new_monitor.py: monitor_pod_scaling and the resource_monitoring thread *)

\* samples followed per run of the monitor
MaxSamples == 4

\* watch events followed per run of the monitor
MaxEvents == 2

\* the pods of the service that the list and the watch can name
PodNames == {"pod-a", "pod-b"}

\* event['type'] of a watch event; BOOKMARK stands for the types of the
\* else branch (line 311)
EventTypes == {"ADDED", "DELETED", "MODIFIED", "BOOKMARK"}

NoEvent == [type |-> "none", name |-> "none"]

\* list_namespaced_pod of line 251 raised
ListFailed == [ok |-> FALSE, names |-> {}]

\* what the first list of pods can give (lines 250-258)
ListOutcomes ==
    {ListFailed} \cup {[ok |-> TRUE, names |-> S] : S \in SUBSET PodNames}

\* no log file written yet; a written one is <<n>>, n messages
NoFile == <<>>

\* what a run of the monitor leaves alone
notMon == <<envVars, histVars, ctlVars, silent, parseVars>>

\* monitor_pod_scaling has not been called: no thread yet
MonitorOff ==
    /\ mon_pc = "off"
    /\ mon_exit = "none"
    /\ pending = FALSE
    /\ stop_event = FALSE
    /\ sampler_pc = "none"
    /\ samples = 0
    /\ late = 0
    /\ elapsed = FALSE
    /\ logged = 0
    /\ log_file = NoFile
    /\ interrupts = {}
    /\ current_pods = {}
    /\ pod_count = 0
    /\ event = NoEvent
    /\ n_events = 0

\* main() sets up logging (one message, line 67) and calls
\* monitor_pod_scaling, which logs its first message (line 243)
MonitorCalled ==
    /\ mon_pc = "off"
    /\ mon_pc' = "setup"
    /\ logged' = logged + 2
    /\ UNCHANGED <<mon_exit, pending, stop_event, sampler_pc, samples, late>>
    /\ UNCHANGED <<elapsed, log_file, interrupts>>
    /\ UNCHANGED <<current_pods, pod_count, event, n_events>>
    /\ UNCHANGED notMon

\* lines 245-262: load_kube_config and CoreV1Api (an exception goes to the
\* outer handler, line 326), the first pod list (its exceptions are caught
\* at 255 and leave an empty set), the Event and the start of the thread
MonitorSetup(ok, listed) ==
    /\ mon_pc = "setup"
    /\ IF ok
       THEN /\ mon_pc' = "started"
            /\ sampler_pc' = "test"
            /\ current_pods' = IF listed.ok THEN listed.names ELSE {}
            /\ pod_count' = Cardinality(current_pods')
            /\ UNCHANGED mon_exit
       ELSE /\ mon_pc' = "left"
            /\ mon_exit' = "return"
            /\ UNCHANGED <<sampler_pc, current_pods, pod_count>>
    /\ logged' = logged + 1
    /\ UNCHANGED <<pending, stop_event, samples, late>>
    /\ UNCHANGED <<elapsed, log_file, interrupts, event, n_events>>
    /\ UNCHANGED notMon

\* line 264: w = watch.Watch(), after start() and before the try of 265
MonitorWatchMade ==
    /\ mon_pc = "started"
    /\ mon_pc' = "watching"
    /\ UNCHANGED <<mon_exit, pending, stop_event, sampler_pc, samples, late>>
    /\ UNCHANGED <<elapsed, logged, log_file, interrupts>>
    /\ UNCHANGED <<current_pods, pod_count, event, n_events>>
    /\ UNCHANGED notMon

\* a handler of ADDED that counts without looking at the set
CountEveryAdded(type, name, pods, count) ==
    CASE type = "ADDED"   -> count + 1
      [] type = "DELETED" -> Cardinality(pods \ {name})
      [] OTHER            -> count

\* lines 283-291: current_pods after an event
PodsAfter(type, name, pods) ==
    CASE type = "ADDED"   -> pods \cup {name}
      [] type = "DELETED" -> pods \ {name}
      [] OTHER            -> pods

\* lines 283-291: pod_count after an event; it is assigned in the ADDED
\* branch only for a new name, in the DELETED branch always
CountAfter(type, name, pods, count) ==
    CASE type = "ADDED" /\ name \notin pods -> Cardinality(pods \cup {name})
      [] type = "DELETED"                   -> Cardinality(pods \ {name})
      [] OTHER                              -> count

\* lines 283-313: every branch logs one message but ADDED of a known pod
EventLogs(type, name, pods) ==
    IF type = "ADDED" /\ name \in pods THEN 0 ELSE 1

\* lines 266-313: one event of the stream is processed
MonitorEvent(type, name) ==
    /\ mon_pc = "watching"
    /\ n_events < MaxEvents
    /\ event' = [type |-> type, name |-> name]
    /\ n_events' = n_events + 1
    /\ current_pods' = PodsAfter(type, name, current_pods)
    /\ pod_count' = CountAfter(type, name, current_pods, pod_count)
    /\ logged' = logged + EventLogs(type, name, current_pods)
    /\ UNCHANGED <<mon_pc, mon_exit, pending, stop_event, sampler_pc>>
    /\ UNCHANGED <<samples, late, elapsed, log_file, interrupts>>
    /\ UNCHANGED notMon

\* the ways the block of lines 265-319 is left
WatchEnds == {"finished", "error", "interrupt"}

\* lines 265-323: the watch ends (stream exhausted or end_time reached, one
\* message at 319), raises an Exception (caught at 320, one message) or is
\* interrupted (KeyboardInterrupt is not an Exception); finally sets the
\* stop flag
MonitorWatchOver(how) ==
    /\ mon_pc = "watching"
    /\ mon_pc' = "joining"
    /\ stop_event' = TRUE
    /\ pending' = (how = "interrupt")
    /\ interrupts' = IF how = "interrupt" THEN interrupts \cup {"watch"}
                     ELSE interrupts
    /\ logged' = IF how = "interrupt" THEN logged ELSE logged + 1
    /\ UNCHANGED <<mon_exit, sampler_pc, samples, late, elapsed, log_file>>
    /\ UNCHANGED <<current_pods, pod_count, event, n_events>>
    /\ UNCHANGED notMon

\* a join that does not wait for the thread
JoinWithoutWaiting(p) == TRUE

\* line 324: resource_thread.join() returns when the thread, at p, is over
ThreadJoined(p) == p = "exited"

\* lines 324-327: join returns; a pending KeyboardInterrupt goes on out of
\* the function (the outer handler catches Exception only)
MonitorJoin ==
    /\ mon_pc = "joining"
    /\ ThreadJoined(sampler_pc)
    /\ mon_pc' = "left"
    /\ mon_exit' = IF pending THEN "raise" ELSE "return"
    /\ pending' = FALSE
    /\ UNCHANGED <<stop_event, sampler_pc, samples, late>>
    /\ UNCHANGED <<elapsed, logged, log_file, interrupts>>
    /\ UNCHANGED <<current_pods, pod_count, event, n_events>>
    /\ UNCHANGED notMon

\* Ctrl-C while the main thread is at line 264 or inside join(): the
\* KeyboardInterrupt is raised there and leaves the function
MonitorInterrupted ==
    /\ mon_pc \in {"started", "joining"}
    /\ mon_pc' = "left"
    /\ mon_exit' = "raise"
    /\ pending' = FALSE
    /\ interrupts' = interrupts \cup {IF mon_pc = "started" THEN "made"
                                      ELSE "join"}
    /\ UNCHANGED <<stop_event, sampler_pc, samples, late>>
    /\ UNCHANGED <<elapsed, logged, log_file>>
    /\ UNCHANGED <<current_pods, pod_count, event, n_events>>
    /\ UNCHANGED notMon

\* main, lines 349-370: a KeyboardInterrupt out of monitor_pod_scaling is
\* caught and logged (352); finally writes every message of the list
\* handler to the log file
MainFinally ==
    /\ mon_pc = "left"
    /\ log_file = NoFile
    /\ logged' = IF mon_exit = "raise" THEN logged + 1 ELSE logged
    /\ log_file' = <<logged'>>
    /\ UNCHANGED <<mon_pc, mon_exit, pending, stop_event, sampler_pc>>
    /\ UNCHANGED <<samples, late, elapsed, interrupts>>
    /\ UNCHANGED <<current_pods, pod_count, event, n_events>>
    /\ UNCHANGED notMon

\* line 223: while not stop_event.is_set(); a sample begins with the
\* message of line 152
SamplerTest ==
    /\ sampler_pc = "test"
    /\ IF stop_event
       THEN sampler_pc' = "exited" /\ UNCHANGED <<samples, late, logged>>
       ELSE /\ samples < MaxSamples
            /\ sampler_pc' = "sampling"
            /\ samples' = samples + 1
            /\ late' = IF mon_pc = "left" THEN late + 1 ELSE late
            /\ logged' = logged + 1
    /\ UNCHANGED <<mon_pc, mon_exit, pending, stop_event>>
    /\ UNCHANGED <<elapsed, log_file, interrupts>>
    /\ UNCHANGED <<current_pods, pod_count, event, n_events>>
    /\ UNCHANGED notMon

\* line 224: get_service_pod_resources returns (it catches ApiException)
\* after logging what it found, or raises something else, which ends the
\* thread; line 225 begins the wait
SamplerSampled(ok) ==
    /\ sampler_pc = "sampling"
    /\ sampler_pc' = IF ok THEN "waiting" ELSE "exited"
    /\ logged' = IF ok THEN logged + 1 ELSE logged
    /\ elapsed' = FALSE
    /\ UNCHANGED <<mon_pc, mon_exit, pending, stop_event, samples, late>>
    /\ UNCHANGED <<log_file, interrupts>>
    /\ UNCHANGED <<current_pods, pod_count, event, n_events>>
    /\ UNCHANGED notMon

\* the 15 seconds of the wait of line 225 are over
SamplerTimeout ==
    /\ sampler_pc = "waiting"
    /\ ~elapsed
    /\ elapsed' = TRUE
    /\ UNCHANGED <<mon_pc, mon_exit, pending, stop_event, sampler_pc>>
    /\ UNCHANGED <<samples, late, logged, log_file, interrupts>>
    /\ UNCHANGED <<current_pods, pod_count, event, n_events>>
    /\ UNCHANGED notMon

\* a time.sleep(15) in the place of the wait: over with the time only
SleepOver(flag, timeout) == timeout

\* line 225: stop_event.wait(15) returns when the flag is set or the time
\* is over
WaitOver(flag, timeout) == flag \/ timeout

\* line 225: the wait returns
SamplerWoke ==
    /\ sampler_pc = "waiting"
    /\ WaitOver(stop_event, elapsed)
    /\ sampler_pc' = "test"
    /\ UNCHANGED <<mon_pc, mon_exit, pending, stop_event, samples, late>>
    /\ UNCHANGED <<elapsed, logged, log_file, interrupts>>
    /\ UNCHANGED <<current_pods, pod_count, event, n_events>>
    /\ UNCHANGED notMon

-----------------------------------------------------------------------------
(* Specifications *)

\* the revisions in the namespace before the first cycle: the service's
\* first, and one of another service
InitRevisions ==
    {[name |-> 1, service |-> SERVICE_NAME], [name |-> 0, service |-> "other"]}

\* no pipeline.py has run yet
NoCycleYet ==
    /\ cluster0 = cluster
    /\ revisions = InitRevisions
    /\ latest = 1
    /\ pc = "idle"
    /\ cfg = NoSettings
    /\ metrics = NoMetrics
    /\ probed = 0
    /\ action = <<>>
    /\ fetch = "none"
    /\ infer = "none"
    /\ result = "none"
    /\ oracle_calls = 0
    /\ mutator_calls = 0
    /\ housekeeping = "none"
    /\ deletes = {}
    /\ cycles = 0

\* no control cycle is running and none will: the environment on its own
CtlOff ==
    /\ cluster = DefaultSettings
    /\ NoCycleYet
    /\ loop_pc = "off"
    /\ loop_i = 0
    /\ environ = 100
    /\ started = <<>>
    /\ sweep_failed = FALSE

\* every peer answers, the monitor is not run, no parser is called alone
SideQuiet ==
    /\ silent = {}
    /\ MonitorOff
    /\ ParseOff

CtlQuiet == CtlOff /\ SideQuiet

HistInit ==
    /\ last = NoCall
    /\ run = 0
    /\ up_from = 0
    /\ calls = 0
    /\ call = "none"
    /\ raised = FALSE
    /\ tape = <<>>
    /\ pos = NoCall
    /\ seed_arg = NoSeed

\* ---- SpecEnv: episodes of either environment class, from construction ----

\* step calls followed per episode (current_step itself is not capped by step)
MaxCalls == 102

InitEnv ==
    /\ \E v \in Variants : EnvInit(v)
    /\ HistInit
    /\ CtlQuiet

\* env.reset(), as the training scripts call it
CallReset ==
    /\ reset(NoSeed)
    /\ last' = NoCall
    /\ calls' = 0
    /\ call' = "reset"
    /\ raised' = FALSE
    /\ UNCHANGED <<run, up_from, tape, pos, seed_arg, ctlVars, sideVars>>

CallStep(a) ==
    /\ calls < MaxCalls
    /\ step(a)
    /\ last' = a
    /\ calls' = calls + 1
    /\ call' = "step"
    /\ raised' = FALSE
    /\ UNCHANGED <<run, up_from, tape, pos, seed_arg, ctlVars, sideVars>>

NextEnv ==
    \/ CallReset
    \/ \E a \in Actions : CallStep(a)

SpecEnv == InitEnv /\ [][NextEnv]_vars

\* ---- SpecEpisodes: pairs of short episodes with the same actions ----------

\* steps per episode
MaxEpisode == 3

\* the seeds reset is called with
Seeds == {NoSeed, Seed(7), Seed(0 - 1)}

\* env.reset(seed=...): after recorded steps it opens the second episode of
\* the pair, otherwise a new first episode
SeededReset(seed) ==
    /\ reset(seed)
    /\ call' = "reset"
    /\ seed_arg' = seed
    /\ raised' = ~SeedAccepted(seed)
    /\ IF SeedAccepted(seed)
       THEN /\ last' = NoCall
            /\ calls' = 0
            /\ IF pos = NoCall /\ tape # <<>>
               THEN pos' = 0 /\ UNCHANGED tape
               ELSE pos' = NoCall /\ tape' = <<>>
       ELSE UNCHANGED <<last, calls, tape, pos>>
    /\ UNCHANGED <<run, up_from, ctlVars, sideVars>>

\* a step of a first episode: action a, put on record once reset was called
RecordStep(a) ==
    /\ pos = NoCall
    /\ calls < MaxEpisode
    /\ step(a)
    /\ last' = a
    /\ calls' = calls + 1
    /\ call' = "step"
    /\ raised' = FALSE
    /\ tape' = IF np_seed = Unseeded THEN tape
               ELSE Append(tape, [a |-> a, seed |-> np_seed, out |-> Outputs'])
    /\ UNCHANGED <<run, up_from, pos, seed_arg, ctlVars, sideVars>>

\* a step of a second episode: the action the first episode took there
ReplayStep ==
    /\ pos # NoCall
    /\ pos < Len(tape)
    /\ step(tape[pos + 1].a)
    /\ last' = tape[pos + 1].a
    /\ calls' = calls + 1
    /\ call' = "step"
    /\ raised' = FALSE
    /\ pos' = pos + 1
    /\ UNCHANGED <<run, up_from, tape, seed_arg, ctlVars, sideVars>>

NextEpisodes ==
    \/ \E seed \in Seeds : SeededReset(seed)
    \/ \E a \in Actions : RecordStep(a)
    \/ ReplayStep

SpecEpisodes == InitEnv /\ [][NextEpisodes]_vars

\* ---- SpecReward: one step from every step index of an episode ------------

\* step calls followed from each input
MaxProbe == 1

\* the environment after reset and k NoOp steps, k < max_steps
InitReward ==
    /\ \E v \in Variants : \E k \in 0 .. MAX_STEPS - 1 :
         /\ variant = v
         /\ current_step = k
         /\ state = Written(k > 0, k, MAX_STEPS, 1,
                            Num(InitCpu(v)), Num(InitMem(v)))
         /\ cpu_per_pod = Num(InitCpu(v))
         /\ memory_per_pod = Num(InitMem(v))
         /\ last = IF k = 0 THEN NoCall ELSE 0
         /\ call = IF k = 0 THEN "reset" ELSE "step"
    /\ num_pods = 1
    /\ max_steps = MAX_STEPS
    /\ terminated = FALSE
    /\ truncated = FALSE
    /\ np_seed = 42
    /\ run = 0
    /\ up_from = 0
    /\ calls = 0
    /\ raised = FALSE
    /\ tape = <<>>
    /\ pos = NoCall
    /\ seed_arg = NoSeed
    /\ CtlQuiet

RewardStep(a) ==
    /\ calls < MaxProbe
    /\ step(a)
    /\ last' = a
    /\ calls' = calls + 1
    /\ call' = "step"
    /\ raised' = FALSE
    /\ UNCHANGED <<run, up_from, tape, pos, seed_arg, ctlVars, sideVars>>

NextReward == \E a \in Actions : RewardStep(a)

SpecReward == InitReward /\ [][NextReward]_vars

\* ---- SpecFn: step applied to inputs drawn from the declared ranges -------

\* step calls followed from each input
MaxRun == 5

\* per-pod CPU inputs: every integer of [MIN_CPU_PER_POD, MAX_CPU_PER_POD]
CpuInputs == MIN_CPU_PER_POD .. MAX_CPU_PER_POD

InitFn ==
    /\ \E v \in Variants :
         /\ variant = v
         /\ \/ /\ num_pods \in 1 .. MAX_PODS
               /\ cpu_per_pod = Num(InitCpu(v))
            \/ /\ num_pods = 1
               /\ cpu_per_pod \in {Num(c) : c \in CpuInputs}
         /\ memory_per_pod = Num(InitMem(v))
    /\ current_step = num_pods - 1
    /\ max_steps = MAX_STEPS
    /\ terminated = FALSE
    /\ truncated = FALSE
    /\ state = Written(FALSE, 0, MAX_STEPS, num_pods, cpu_per_pod, memory_per_pod)
    /\ np_seed = 42
    /\ HistInit
    /\ CtlQuiet

TrackedStep(a) ==
    /\ calls < MaxRun
    /\ step(a)
    /\ calls' = calls + 1
    /\ last' = a
    /\ run' = IF a = last THEN run + 1 ELSE 1
    /\ up_from' = IF a = 1 THEN num_pods
                  ELSE IF a = 2 /\ last = 1 THEN up_from
                  ELSE 0
    /\ call' = "step"
    /\ raised' = FALSE
    /\ UNCHANGED <<tape, pos, seed_arg, ctlVars, sideVars>>

NextFn == \E a \in Actions : TrackedStep(a)

SpecFn == InitFn /\ [][NextFn]_vars

\* ---- Spec: control cycles against one service ----------------------------

\* the ScalingConfigs the service may hold when the first cycle starts
InitScales == {<<1, 1>>, <<1, 50>>, <<100, 100>>}
InitCpus   == {<<Qty(100, "m"), Qty(100, "m")>>, <<Qty(250, "m"), Qty(500, "m")>>,
               <<Qty(600, "m"), Qty(1000, "m")>>, <<Qty(1, ""), Qty(1, "")>>}
InitMems   == {<<Qty(64, "Mi"), Qty(128, "Mi")>>, <<Qty(128, "Mi"), Qty(256, "Mi")>>,
               <<Qty(256, "Mi"), Qty(256, "Mi")>>}

InitClusters ==
    {[min_scale |-> s[1], max_scale |-> s[2],
      cpu_request |-> c[1], mem_request |-> m[1],
      cpu_limit |-> c[2], mem_limit |-> m[2]] :
        s \in InitScales, c \in InitCpus, m \in InitMems}

\* the environment is constructed and not used
EnvIdle ==
    /\ EnvInit("model")
    /\ HistInit

\* the ways a run of change_settings.py can go, one of each kind
RunChangeSettings ==
    \/ change_settings(FALSE, FALSE, "ok", {})
    \/ \E fresh \in BOOLEAN : \E hk \in HousekeepingOutcomes :
       \E failed \in SUBSET (1 .. latest) :
          /\ (fresh => latest < MaxRevisions)
          /\ (hk # "ok" => failed = {})
          /\ failed \subseteq
                 StaleRevisions(revisions, IF fresh THEN latest + 1 ELSE latest)
          /\ change_settings(TRUE, fresh, hk, failed)

\* the steps of a cycle after its first
CycleSteps ==
    \/ \E o \in {"ok", "failed"} : get_service_url(o)
    \/ \E o \in {"ok", "failed"} : send_requests(o)
    \/ \E l \in 0 .. MaxLivePods : \E m \in 0 .. l : get_service_pod_resources("ok", l, m)
    \/ get_service_pod_resources("api_error", 0, 0)
    \/ \E o \in InferOutcomes : \E a \in ReplyValues :
          /\ (o # "reply" => a = 0)
          /\ Infer(o, a)
    \/ RunChangeSettings

Init ==
    /\ cluster \in InitClusters
    /\ NoCycleYet
    /\ loop_pc = "off"
    /\ loop_i = 0
    /\ environ = 100
    /\ started = <<>>
    /\ sweep_failed = FALSE
    /\ EnvIdle
    /\ SideQuiet

Next ==
    \/ \E o \in FetchOutcomes : RunPipeline(o)
    \/ CycleSteps

Spec == Init /\ [][Next]_vars

\* ---- SpecUnits: cycles against a service whose quantities are written in
\* several of the units the cluster API accepts ---------------------------

UnitScales == {<<1, 1>>, <<1, 50>>}
UnitCpus   == {<<Qty(250, "m"), Qty(500, "m")>>, <<Qty(1, ""), Qty(1, "")>>}

\* 1 MiB written in bytes under a limit of 64 MiB; 64 MiB written in KiB
\* under 128 MiB; 128 MiB under 1 GiB
UnitMems   == {<<Qty(1048576, ""), Qty(64, "Mi")>>,
               <<Qty(65536, "Ki"), Qty(128, "Mi")>>,
               <<Qty(128, "Mi"), Qty(1, "Gi")>>}

UnitClusters ==
    {[min_scale |-> s[1], max_scale |-> s[2],
      cpu_request |-> c[1], mem_request |-> m[1],
      cpu_limit |-> c[2], mem_limit |-> m[2]] :
        s \in UnitScales, c \in UnitCpus, m \in UnitMems}

InitUnits ==
    /\ cluster \in UnitClusters
    /\ NoCycleYet
    /\ loop_pc = "off"
    /\ loop_i = 0
    /\ environ = 100
    /\ started = <<>>
    /\ sweep_failed = FALSE
    /\ EnvIdle
    /\ SideQuiet

SpecUnits == InitUnits /\ [][Next]_vars

\* ---- SpecSweep: one run of run_pipeline_loop.py --------------------------

InitSweep ==
    /\ cluster = DefaultSettings
    /\ NoCycleYet
    /\ loop_pc = "loop"
    /\ loop_i = 0
    /\ environ = 100
    /\ started = <<>>
    /\ sweep_failed = FALSE
    /\ EnvIdle
    /\ SideQuiet

\* the oracle replies drawn in a sweep: NoOp, ScaleUp, an unknown value
SweepReplies == {0, 1, 5}

\* the steps of a cycle after its first, every way each can end
SweepSteps ==
    \/ \E o \in {"ok", "failed"} : get_service_url(o)
    \/ \E o \in {"ok", "failed"} : send_requests(o)
    \/ get_service_pod_resources("ok", 1, 1)
    \/ get_service_pod_resources("api_error", 0, 0)
    \/ \E o \in InferOutcomes : \E a \in SweepReplies :
          /\ (o # "reply" => a = 0)
          /\ Infer(o, a)
    \/ RunChangeSettings

NextSweep ==
    \/ \E o \in FetchOutcomes : SweepIteration(o)
    \/ PipelineExited
    \/ SweepSteps

SpecSweep == InitSweep /\ [][NextSweep]_vars

\* the same, with progress: subprocess.run waits for pipeline.py, whose
\* steps each return or end the process, and time.sleep(5) ends
SpecSweepFair == SpecSweep /\ WF_vars(NextSweep)

\* ---- SpecHang: cycles against peers some of which never answer ----------

InitHang ==
    /\ CtlOff
    /\ EnvIdle
    /\ silent \in SUBSET Peers
    /\ MonitorOff
    /\ ParseOff

NextHang ==
    \/ \E o \in FetchOutcomes : RunPipeline(o)
    \/ SweepSteps

SpecHang == InitHang /\ [][NextHang]_vars

\* ---- SpecParse: the quantity parsers on strings of every suffix ---------

InitParse ==
    /\ CtlOff
    /\ EnvIdle
    /\ silent = {}
    /\ MonitorOff
    /\ parse_arg \in ParseStrings
    /\ parse_fn = "none"
    /\ parse_out = NotCalled

NextParse == \E f \in Parsers : \E s \in ParseStrings : CallParser(f, s)

SpecParse == InitParse /\ [][NextParse]_vars

\* ---- SpecMonitor: one run of new_monitor.py -----------------------------

InitMonitor ==
    /\ CtlOff
    /\ EnvIdle
    /\ silent = {}
    /\ ParseOff
    /\ MonitorOff

\* the main thread's steps and the sampler thread's, interleaved
NextMonitor ==
    \/ MonitorCalled
    \/ \E ok \in BOOLEAN : \E listed \in ListOutcomes : MonitorSetup(ok, listed)
    \/ MonitorWatchMade
    \/ \E type \in EventTypes : \E name \in PodNames : MonitorEvent(type, name)
    \/ \E how \in WatchEnds : MonitorWatchOver(how)
    \/ MonitorJoin
    \/ MonitorInterrupted
    \/ MainFinally
    \/ SamplerTest
    \/ \E ok \in BOOLEAN : SamplerSampled(ok)
    \/ SamplerTimeout
    \/ SamplerWoke

SpecMonitor == InitMonitor /\ [][NextMonitor]_vars

\* the sampler thread is scheduled again and again and its metrics call
\* returns; a join whose thread is over returns
SpecMonitorFair ==
    /\ SpecMonitor
    /\ WF_vars(SamplerTest)
    /\ WF_vars(\E ok \in BOOLEAN : SamplerSampled(ok))
    /\ WF_vars(SamplerWoke)
    /\ WF_vars(MonitorJoin)

-----------------------------------------------------------------------------
(* Sanity of the representation *)

\* every value a later "/ 2" is applied to is even in 1/Q units, so Half
\* never rounds
HalvingExact ==
    /\ cpu_per_pod % 2 = 0 /\ memory_per_pod % 2 = 0
    /\ cfg.cpu_request_val % 2 = 0 /\ cfg.memory_request_val % 2 = 0
    /\ cfg.cpu_limit_val % 2 = 0 /\ cfg.memory_limit_val % 2 = 0

-----------------------------------------------------------------------------
(* Claims about the control cycle (Spec) *)

\* C1: whenever the Policy Oracle's reply carries a value other than
\* 0,1,2,3,4 the cycle ends at once with the unknown-action outcome, with no
\* run of change_settings.py and the cluster as it was; and the cycle only
\* ever stands before change_settings.py with a value among 0..4 (an unknown
\* value is never carried on like NoOp).
C1_UnknownActionAborts ==
    /\ (pc = "apply" => action # <<>> /\ action[1] \in {0, 1, 2, 3, 4})
    /\ (infer = "reply" /\ action[1] \notin {0, 1, 2, 3, 4}
          => /\ pc = "idle"
             /\ result = "unknown_action"
             /\ mutator_calls = 0
             /\ cluster = cluster0)

C1_Witness ==
    /\ pc = "idle" /\ infer = "reply" /\ action = <<5>>
    /\ result = "unknown_action" /\ oracle_calls = 1

\* C2: after a connection failure, a non-2xx response, an unparseable body
\* or a reply without an action field, get_action_from_model has returned
\* None and the cycle has ended, the same way for all four, with no run of
\* change_settings.py and the cluster as it was.
C2_InferenceFailClosed ==
    infer \in InferFailures
        => /\ action = <<>>
           /\ pc = "idle"
           /\ result = "infer_failed"
           /\ mutator_calls = 0
           /\ cluster = cluster0

C2_Witness ==
    /\ infer = "no_action_field" /\ result = "infer_failed"
    /\ oracle_calls = 1 /\ pc = "idle"

\* usage figures that came from at least one pod's metrics
RealTelemetry == metrics.taken /\ metrics.measured > 0

\* C3: a cycle whose telemetry step failed has called neither the Policy
\* Oracle nor change_settings.py, and the oracle is called and
\* change_settings.py is run only in a cycle that holds real usage data
\* of the service's pods.
C3_TelemetryFailureAborts ==
    /\ [](result = "telemetry_failed" => oracle_calls = 0 /\ mutator_calls = 0)
    /\ [][(oracle_calls' > oracle_calls \/ mutator_calls' > mutator_calls)
            => RealTelemetry]_vars

\* the ranges of the simulator's num_pods, cpu_per_pod and memory_per_pod
InSimRange(c) ==
    /\ c.max_scale \in 1 .. 100
    /\ c.cpu_request_val \in Num(100) .. Num(1000)
    /\ c.memory_request_val \in Num(64) .. Num(256)

\* C4: for a configuration inside the simulator's ranges, the max_scale,
\* cpu_request and memory_request the action branch computes are the
\* num_pods, cpu_per_pod and memory_per_pod the simulator's step computes
\* from the same values and the same action.
C4_TranslateEqualsSimulator ==
    [][pc = "infer" /\ pc' = "apply" /\ InSimRange(cfg)
        => /\ cfg'.max_scale = StepPods(cfg.max_scale, action'[1])
           /\ cfg'.cpu_request_val = StepCpu(cfg.cpu_request_val, action'[1])
           /\ cfg'.memory_request_val =
                  StepMem(cfg.memory_request_val, action'[1])]_vars

\* a ScalingConfig as quantities: replicas, millicores, MiB
Quantities(k) ==
    [min_scale |-> k.min_scale, max_scale |-> k.max_scale,
     cpu_request |-> parse_cpu(k.cpu_request),
     mem_request |-> parse_memory(k.mem_request),
     cpu_limit |-> parse_cpu(k.cpu_limit),
     mem_limit |-> parse_memory(k.mem_limit)]

\* C5: a cycle in which the Policy Oracle returned NoOp leaves the
\* cluster's ScalingConfig as it was when the cycle started, also when the
\* config fetch fell back to the defaults.
C5_NoOpKeepsScalingConfig ==
    pc = "idle" /\ action = <<0>>
        => Quantities(cluster) = Quantities(cluster0)

\* what get_knative_service_settings returned in the running (or last)
\* cycle, parsed
SettingsRead ==
    ParsedSettings(IF fetch = "ok" THEN cluster0 ELSE DefaultSettings)

\* C16: when kubectl fails in get_knative_service_settings the cycle goes
\* on with min_scale = 1, max_scale = 1, cpu 200m and memory 256Mi for
\* request and limit, and the cycle ends with a result that no cycle whose
\* fetch succeeded ends with.
C16_FetchFailureDegraded ==
    /\ (fetch = "kubectl_failed" /\ pc = "url"
          => /\ result = "running"
             /\ cfg = [min_scale |-> 1, max_scale |-> 1,
                       cpu_request_val |-> Num(200),
                       memory_request_val |-> Num(256),
                       cpu_limit_val |-> Num(200),
                       memory_limit_val |-> Num(256)])
    /\ (fetch = "kubectl_failed" /\ pc = "idle"
          => result \notin {"applied", "apply_failed", "infer_failed",
                            "unknown_action", "telemetry_failed", "crashed"})

\* C17: the configuration run through change_settings.py has min_scale =
\* max_scale in a ScaleUp or ScaleDown cycle, max_scale >= 1 after
\* ScaleDown, and the min_scale and max_scale that were read in a NoOp,
\* Increase or Decrease cycle.
C17_FixedReplicaCount ==
    pc = "apply" =>
        /\ (action[1] \in {1, 2}
              => PatchOf(cfg).min_scale = PatchOf(cfg).max_scale)
        /\ (action[1] = 2 => PatchOf(cfg).max_scale >= 1)
        /\ (action[1] \in {0, 3, 4}
              => /\ PatchOf(cfg).min_scale = SettingsRead.min_scale
                 /\ PatchOf(cfg).max_scale = SettingsRead.max_scale)

C17_Witness ==
    /\ pc = "apply" /\ action = <<1>> /\ fetch = "ok"
    /\ cluster0.min_scale = 1 /\ cluster0.max_scale = 50
    /\ cfg.min_scale = 51 /\ cfg.max_scale = 51

\* C18: change_settings.py is run at most once per cycle; when that run
\* fails the cycle ends there, with no second run and exit code 0, and the
\* service is as it was (the six fields go in one patch, which is applied
\* whole or not at all); the cycle after it reads the configuration again
\* and has no telemetry until it measures.
C18_ApplyFailure ==
    [][/\ mutator_calls' <= 1
       /\ (mutator_calls' = 1 /\ mutator_calls = 0 => pc = "apply")
       /\ (result' = "apply_failed"
              => /\ pc' = "idle"
                 /\ mutator_calls' = 1
                 /\ cluster' = cluster
                 /\ ExitCode(result') = 0)
       /\ (cluster' # cluster
              => cluster' = PatchOf(cfg) /\ result' = "applied")
       /\ (pc = "idle" /\ pc' # "idle"
              => /\ cfg' = ParsedSettings(IF fetch' = "ok" THEN cluster
                                          ELSE DefaultSettings)
                 /\ metrics' = NoMetrics
                 /\ probed' = 0
                 /\ mutator_calls' = 0)]_vars

C18_Witness ==
    /\ pc = "idle" /\ result = "apply_failed" /\ mutator_calls = 1
    /\ cycles = 2 /\ fetch = "ok" /\ latest = 2
    /\ cluster = cluster0

\* C19: revisions are deleted only in a run of change_settings.py whose
\* patch succeeded, never after a failed patch; when the deletion loop is
\* reached kubectl delete is run on every revision of the service other
\* than the latest, also on those after one whose deletion failed; only
\* such revisions are removed; and however the housekeeping goes, the
\* cycle ends as applied with exit code 0.
C19_Housekeeping ==
    [][/\ (housekeeping' # "none" \/ deletes' # {} \/ revisions' # revisions
              => /\ pc = "apply"
                 /\ cluster' = PatchOf(cfg)
                 /\ result' = "applied"
                 /\ ExitCode(result') = 0)
       /\ (result' = "apply_failed"
              => housekeeping' = "none" /\ deletes' = {})
       /\ (housekeeping' = "ok"
              => deletes' = StaleRevisions(revisions \cup revisions', latest'))
       /\ (housekeeping' # "ok" => deletes' = {})
       /\ (\A r \in revisions \ revisions' :
              r.service = SERVICE_NAME /\ r.name \in deletes' /\ r.name # latest')]_vars

C19_Witness ==
    /\ pc = "idle" /\ result = "applied" /\ housekeeping = "ok"
    /\ latest = 3 /\ deletes = {1, 2}
    /\ [name |-> 1, service |-> SERVICE_NAME] \in revisions
    /\ [name |-> 2, service |-> SERVICE_NAME] \notin revisions

\* the order of the steps of main(): each position and the one after it
StepOrder ==
    {<<"idle", "url">>, <<"url", "probe">>, <<"probe", "metrics">>,
     <<"metrics", "infer">>, <<"infer", "apply">>, <<"apply", "idle">>}

\* C28: a cycle goes through config fetch, load probe, usage metrics,
\* inference with translation, and apply in this order, or ends early; the
\* Policy Oracle is called only once the load probe and the metrics call
\* have returned, and change_settings.py is run only after the oracle
\* returned a recognised action in the same cycle, with the settings
\* translated from that action.
C28_StepOrdering ==
    [][/\ (pc' # pc => <<pc, pc'>> \in StepOrder \/ pc' = "idle")
       /\ (oracle_calls' > oracle_calls
              => /\ pc = "infer"
                 /\ fetch \in {"ok", "kubectl_failed"}
                 /\ probed = environ
                 /\ metrics.taken
                 /\ mutator_calls = 0)
       /\ (mutator_calls' > mutator_calls
              => /\ pc = "apply"
                 /\ oracle_calls = 1
                 /\ infer = "reply"
                 /\ action # <<>> /\ action[1] \in {0, 1, 2, 3, 4}
                 /\ cfg = Translate(SettingsRead, action[1]))]_vars

C28_Witness ==
    /\ pc = "idle" /\ result = "applied" /\ cycles = 1
    /\ oracle_calls = 1 /\ mutator_calls = 1 /\ action = <<3>>
    /\ fetch = "ok" /\ cluster # cluster0

\* C29: the body sent to /predict in a cycle with usage data of the
\* service's pods carries exactly the seven fields Observation requires,
\* so the endpoint accepts it.
C29_RequestBodySchema ==
    pc = "infer" /\ RealTelemetry
        => DOMAIN RequestBody = ObservationFields /\ Accepts(RequestBody)

\* C30: the cpu_usage and memory_usage of the body are the usage per pod
\* as a percentage of cpu_per_pod and memory_per_pod, as the simulator
\* computes them, and num_pods is the max_scale read at the start of the
\* cycle.
C30_SharedObservation ==
    pc = "infer" /\ RealTelemetry
        => \A body \in {RequestBody} :
             /\ body.cpu_usage =
                    UsagePercent(total_cpu_usage, body.num_pods, body.cpu_per_pod)
             /\ body.memory_usage =
                    UsagePercent(RatDiv(total_memory_usage, R(1024 * 1024)),
                                 body.num_pods, body.memory_per_pod)
             /\ body.num_pods = R(SettingsRead.max_scale)

\* C26: the service starts with max_scale in 1..MAX_PODS; after any number
\* of cycles, whatever actions the Policy Oracle returned, the max_scale
\* the service holds is in 1..MAX_PODS.
C26_PodCountBoundOverCycles == cluster.max_scale \in 1 .. MAX_PODS

\* C27: the service starts with CPU request and limit in 100..1000
\* millicores and memory request and limit in 64..256 MiB; after any number
\* of cycles every CPU value the service holds is in 100..1000 and every
\* memory value in 64..256.
C27_ResourceBoundOverCycles ==
    LET q == Quantities(cluster)
    IN  /\ q.cpu_request \in Num(MIN_CPU_PER_POD) .. Num(MAX_CPU_PER_POD)
        /\ q.cpu_limit \in Num(MIN_CPU_PER_POD) .. Num(MAX_CPU_PER_POD)
        /\ q.mem_request \in Num(MIN_MEM_PER_POD) .. Num(MAX_MEM_PER_POD)
        /\ q.mem_limit \in Num(MIN_MEM_PER_POD) .. Num(MAX_MEM_PER_POD)

-----------------------------------------------------------------------------
(* Claims about the environment from construction (SpecEnv) *)

\* C6: after reset and any steps, num_pods is an integer of 1..100; a
\* ScaleUp step sets it to min(100, num_pods + 1), a ScaleDown step to
\* max(1, num_pods - 1); in both environment classes.
C6_PodCountInvariant ==
    /\ [](num_pods \in 1 .. 100)
    /\ [][/\ (calls' = calls + 1 /\ last' = 1
                => num_pods' = IF num_pods + 1 < 100 THEN num_pods + 1 ELSE 100)
          /\ (calls' = calls + 1 /\ last' = 2
                => num_pods' = IF num_pods - 1 > 1 THEN num_pods - 1 ELSE 1)]_vars

C6_Witness ==
    /\ last = 1 /\ num_pods = 100 /\ calls > 100 /\ variant = "experiments"

\* C8: in every state reached from reset, cpu_per_pod is in [100, 1000]
\* and memory_per_pod in [64, 256]; in both environment classes.
C8_ResourceBounds ==
    /\ cpu_per_pod >= Num(100) /\ cpu_per_pod <= Num(1000)
    /\ memory_per_pod >= Num(64) /\ memory_per_pod <= Num(256)

C8_Witness ==
    /\ variant = "model" /\ last = 3
    /\ cpu_per_pod = Num(1000) /\ memory_per_pod = Num(256) /\ calls = 4

\* C10: the k-th step of an episode returns truncated = TRUE exactly when
\* k >= 100, and terminated = FALSE always.
C10_Truncation ==
    /\ terminated = FALSE
    /\ (last # NoCall => (truncated <=> calls >= 100))
    /\ (last = NoCall => ~truncated)

C10_Witness == truncated /\ calls = 100 /\ last # NoCall

-----------------------------------------------------------------------------
(* Claims about step on inputs of the declared ranges (SpecFn) *)

\* C7: a ScaleUp step followed by a ScaleDown step brings num_pods back
\* to where it was, from every num_pods of 1..99; ScaleUp at 100 and
\* ScaleDown at 1 leave num_pods as it is.
C7_ScaleRoundTrip ==
    /\ [](last = 2 /\ up_from \in 1 .. 99 => num_pods = up_from)
    /\ [][/\ (calls' = calls + 1 /\ last' = 1 /\ num_pods = 100
                => num_pods' = 100)
          /\ (calls' = calls + 1 /\ last' = 2 /\ num_pods = 1
                => num_pods' = 1)]_vars

C7_Witness == last = 2 /\ up_from = 99 /\ num_pods = 99

\* C9: from any cpu_per_pod of [100, 1000], IncreaseResourcesPerPod
\* repeated 4 times has reached 1000 and every further Increase keeps
\* 1000; DecreaseResourcesPerPod repeated 4 times has reached 100 and
\* every further Decrease keeps 100.
C9_ResourceSaturation ==
    /\ [](/\ (last = 3 /\ run >= 4 => cpu_per_pod = Num(1000))
          /\ (last = 4 /\ run >= 4 => cpu_per_pod = Num(100)))
    /\ [][/\ (calls' = calls + 1 /\ last' = 3 /\ cpu_per_pod = Num(1000)
                => cpu_per_pod' = Num(1000))
          /\ (calls' = calls + 1 /\ last' = 4 /\ cpu_per_pod = Num(100)
                => cpu_per_pod' = Num(100))]_vars

C9_Witness ==
    /\ last = 3 /\ run = 5 /\ cpu_per_pod = Num(1000)

-----------------------------------------------------------------------------
(* Claims about episodes *)

\* C11: in every state reached by reset and step calls, steps after a step
\* that returned truncated = TRUE included, 0 <= current_step <= max_steps.
C11_StepIndexBound == current_step >= 0 /\ current_step <= max_steps

\* the state of an environment that was constructed and reset, and the
\* observation reset returns there
FreshlyReset ==
    /\ num_pods = 1
    /\ cpu_per_pod = Num(IF variant = "experiments" THEN 200 ELSE 250)
    /\ memory_per_pod = Num(IF variant = "experiments" THEN 64 ELSE 128)
    /\ current_step = 0
    /\ max_steps = 100
    /\ Observation(variant, state) =
           IF variant = "experiments"
           THEN <<R(10), R(10), R(0), R(100), R(1), R(200), R(64)>>
           ELSE <<R(1), R(10), R(0), R(100), R(1), R(250), R(128)>>

\* C12 (as stated): after any steps, a reset call with any seed or none
\* does not fail and leaves the environment as reset leaves a freshly
\* constructed one, the returned observation being the initial observation.
C12_ResetAnySeed == call = "reset" => ~raised /\ FreshlyReset

\* C12 (amended): the same for a reset call with no seed or a seed that is
\* not negative; a negative seed makes reset raise.
C12_ResetAcceptedSeed ==
    /\ (call = "reset" /\ (~seed_arg.given \/ seed_arg.value >= 0)
          => ~raised /\ FreshlyReset)
    /\ (call = "reset" /\ seed_arg.given /\ seed_arg.value < 0 => raised)

C12_Witness ==
    /\ call = "reset" /\ seed_arg = Seed(7) /\ ~raised
    /\ pos = 0 /\ Len(tape) = 3 /\ tape[3].out.info.num_pods = 4

\* the peak of the load curve of each class
PeakOf(v) == IF v = "experiments" THEN 10000 ELSE 100

\* C13: the load entry of the observation the k-th step after reset returns
\* is peak * (1 - (2k/T - 1)^2) = peak * 4k(T - k) / T^2 with T = 100,
\* whatever the actions were; it is 396 at k = 1 for peak 10000, the peak at
\* k = T/2, 0 at k = T, and within [0, peak] for every k of 0..T.
C13_LoadCurve ==
    call = "step" =>
        \A load \in {StateAt(variant, state, 3)} :
        LET k == calls
            peak == PeakOf(variant)
        IN  /\ load = Rat(peak * 4 * k * (100 - k), 100 * 100)
            /\ (k = 1 /\ peak = 10000 => load = R(396))
            /\ (k = 50 => load = R(peak))
            /\ (k = 100 => load = R(0))
            /\ (k <= 100 => RatLeq(R(0), load) /\ RatLeq(load, R(peak)))

C13_Witness ==
    /\ call = "step" /\ calls = 50 /\ variant = "experiments" /\ num_pods = 26
    /\ StateAt(variant, state, 3) = R(10000)

\* C15: a second episode that starts with reset, with the same seed or
\* another, and takes the actions of the first returns at every step the
\* observation, reward, terminated and truncated flags and info the first
\* returned there, whatever preceded either reset.
C15_Determinism ==
    pos # NoCall /\ pos >= 1 /\ call = "step" => Outputs = tape[pos].out

C15_Witness ==
    /\ pos = 3 /\ call = "step" /\ tape[1].seed = 42 /\ np_seed = 7
    /\ last = 3 /\ num_pods = 3 /\ Outputs = tape[3].out

-----------------------------------------------------------------------------
(* Claims about the reward (SpecReward) *)

\* pod counts whose rewards are compared
MaxComparePods == 12

\* _calculate_reward on the present self.state, for each num_pods compared
RewardsByPods ==
    LET obs == Observation(variant, state)
    IN  [n \in 1 .. MaxComparePods |-> calculate_reward(variant, obs, n)]

\* C14 (as stated): in both reward models, of two states with the same
\* observed quantities and different num_pods, the one with more pods has a
\* reward less than or equal to the other's.
C14_RewardMonotone ==
    \A rw \in {RewardsByPods} :
        \A n, m \in 1 .. MaxComparePods : n < m => RewardLeq(rw[m], rw[n])

\* C14 (amended): that holds in the banded (traffic) reward model; in the
\* Gaussian (concurrency) reward model the reward with m pods is less than
\* or equal to the reward with n < m pods exactly when n * m >=
\* concurrency / 2.
C14_RewardMonotoneBanded ==
    \A rw \in {RewardsByPods} :
        \A n, m \in 1 .. MaxComparePods :
            n < m =>
                IF variant = "experiments" THEN RewardLeq(rw[m], rw[n])
                ELSE RewardLeq(rw[m], rw[n])
                         <=> RatLeq(RatDiv(StateAt(variant, state, 3), R(2)),
                                    R(n * m))

C14_Witness ==
    /\ call = "step" /\ calls = 1 /\ variant = "model" /\ current_step = 50
    /\ ~RewardLeq(RewardsByPods[7], RewardsByPods[8])
    /\ ~RewardLeq(RewardsByPods[7], RewardsByPods[6])
    /\ ~RewardLeq(RewardsByPods[8], RewardsByPods[6])

-----------------------------------------------------------------------------
(* Claims about run_pipeline_loop.py (SpecSweepFair) *)

-----------------------------------------------------------------------------
(* Claims about new_monitor.py (SpecMonitor) *)

\* C22: once monitor_pod_scaling has left, by return or by an exception,
\* after it started the sampler thread, the stop flag is set and the
\* thread is over, and the sampler has begun no sample since.
C22_JoinBarrier ==
    mon_pc = "left" /\ sampler_pc # "none"
        => stop_event /\ sampler_pc = "exited" /\ late = 0

-----------------------------------------------------------------------------
(* Claims about cycles against silent peers (SpecHang) *)

\* C23: a cycle that is running can always go on to its next step or end,
\* also when the Policy Oracle, the probed service or the metrics API never
\* answers: the call to a silent peer ends, as a failure of its step.
C23_BoundedTimeouts == pc # "idle" => ENABLED SweepSteps

-----------------------------------------------------------------------------
(* Claims about the quantity parsers (SpecParse) *)

\* the binary and the decimal memory suffixes with their exponent
BinaryUnits  == <<"Ki", "Mi", "Gi", "Ti">>
DecimalUnits == <<"K", "M", "G", "T">>

\* C24: parse_cpu and parse_cpu_usage return the number before "m" as it
\* is and a number without suffix times 1000; parse_cpu_usage returns an
\* n-suffixed number divided by 10^6 and a u-suffixed one divided by 10^3;
\* parse_memory_usage returns the number times 1024^k for Ki, Mi, Gi, Ti
\* (k = 1..4), times 1000^k for K, M, G, T, and as it is without suffix;
\* "250m" gives 250, "1" gives 1000, "256Mi" gives 256 * 1024 * 1024 and
\* "1Gi" gives 1024^3.
C24_QuantityParsing ==
    LET n == parse_arg.n
        u == parse_arg.u
        v == parse_out.v
    IN  /\ parse_fn \in {"parse_cpu", "parse_cpu_usage"}
            => /\ (u = "m" => parse_out.ok /\ v = Sci(n, 0, 0))
               /\ (u = "" => parse_out.ok /\ v = Sci(n * 1000, 0, 0))
               /\ (parse_arg = Qty(250, "m") => v = Sci(250, 0, 0))
               /\ (parse_arg = Qty(1, "") => v = Sci(1000, 0, 0))
        /\ parse_fn = "parse_cpu_usage"
            => /\ (u = "n" => parse_out.ok /\ SciScale(v, 6, 6) = Sci(n, 0, 0))
               /\ (u = "u" => parse_out.ok /\ SciScale(v, 3, 3) = Sci(n, 0, 0))
        /\ parse_fn = "parse_memory_usage"
            => /\ \A k \in 1 .. 4 :
                    /\ (u = BinaryUnits[k]
                          => parse_out.ok /\ v = Sci(n, 10 * k, 0))
                    /\ (u = DecimalUnits[k]
                          => parse_out.ok /\ v = Sci(n, 3 * k, 3 * k))
               /\ (u = "" => parse_out.ok /\ v = Sci(n, 0, 0))
               /\ (parse_arg = Qty(256, "Mi")
                     => v = Sci(256 * 1024 * 1024, 0, 0))
               /\ (parse_arg = Qty(1, "Gi") => v = Sci(1024 * 1024 * 1024, 0, 0))

C24_Witness ==
    /\ parse_fn = "parse_memory_usage" /\ parse_arg = Qty(256, "Mi")
    /\ parse_out = Returned(Sci(268435456, 0, 0))

\* C25: on a memory string with suffix Ki, Mi, Gi, Ti, K, M, G, T or none,
\* pipeline.py's parse_memory returns, in MiB, the quantity that
\* parse_memory_usage returns for the same string in bytes.
C25_ConfigMemoryParsing ==
    parse_fn = "parse_memory"
      /\ parse_arg.u \in {"", "Ki", "Mi", "Gi", "Ti", "K", "M", "G", "T"}
        => /\ parse_out.ok
           /\ parse_out.v = SciScale(parse_memory_usage(parse_arg).v, 0 - 20, 0)


-----------------------------------------------------------------------------
(* Claims about the sampler's cancellation and the log (new_monitor.py) *)

\* C31: once the stop flag is set the sampler thread begins no further
\* sample; a wait it is in can return at once, the 15 seconds over or not;
\* the thread eventually exits, and the join of monitor_pod_scaling
\* eventually returns (the thread being scheduled and each metrics call
\* returning).
C31_SamplerCancellation ==
    /\ [][stop_event => samples' = samples]_vars
    /\ [](stop_event /\ sampler_pc = "waiting" => ENABLED SamplerWoke)
    /\ [](stop_event /\ sampler_pc # "none" => <>(sampler_pc = "exited"))
    /\ [](mon_pc = "joining" => <>(mon_pc = "left"))

\* the flag was set during a wait, which returned before its 15 seconds
C31_Witness ==
    /\ stop_event /\ mon_pc = "joining"
    /\ sampler_pc = "test" /\ samples > 0 /\ ~elapsed

\* C32: when one KeyboardInterrupt arrives, during the pod watch, then by
\* the time main has written the log file the stop flag is set, the
\* sampler thread is over (joined, no sample begun after the monitor left)
\* and the file holds every message logged, those of the watch and those
\* of the sampler.
C32_InterruptHandling ==
    interrupts = {"watch"} /\ log_file # NoFile
        => /\ stop_event
           /\ sampler_pc = "exited" /\ late = 0
           /\ log_file = <<logged>>

\* an interrupted watch with events and samples behind it, the log written
C32_Witness ==
    /\ interrupts = {"watch"} /\ log_file # NoFile
    /\ mon_exit = "raise" /\ samples > 0 /\ n_events > 0

\* C39: pod_count is the size of current_pods after every event; an ADDED
\* event for a pod in the set, a DELETED event for a pod not in the set
\* and a MODIFIED event change neither.
C39_PodTracking ==
    /\ [](pod_count = Cardinality(current_pods))
    /\ [][n_events' = n_events + 1 =>
            \A e \in {event'} :
               \/ e.type = "ADDED" /\ e.name \in current_pods
               \/ e.type = "DELETED" /\ e.name \notin current_pods
               \/ e.type = "MODIFIED"
               => UNCHANGED <<current_pods, pod_count>>]_vars

\* the one event processed was an ADDED for a listed pod: it logged nothing
C39_Witness ==
    /\ n_events = 1 /\ event.type = "ADDED" /\ event.name \in current_pods
    /\ samples = 0 /\ logged = 3 /\ pod_count = 1

-----------------------------------------------------------------------------
(* Claims about the simulator's observation and frame *)

\* C33: after reset and after every step, entries 4, 5 and 6 of the
\* observation (Python indices) are num_pods, cpu_per_pod and
\* memory_per_pod of the environment, the info of a step carries the same
\* three values, and they are the values the step's action led to.
C33_ObservationMirrorsState ==
    /\ [](call \in {"reset", "step"}
            => /\ StateAt(variant, state, 5) = R(num_pods)
               /\ StateAt(variant, state, 6) = FromQ(cpu_per_pod)
               /\ StateAt(variant, state, 7) = FromQ(memory_per_pod))
    /\ [][call' = "step" =>
            /\ Outputs'.info.num_pods = StepPods(num_pods, last')
            /\ Outputs'.info.cpu_per_pod = StepCpu(cpu_per_pod, last')
            /\ Outputs'.info.memory_per_pod = StepMem(memory_per_pod, last')
            /\ Outputs'.obs[5] = R(Outputs'.info.num_pods)
            /\ Outputs'.obs[6] = FromQ(Outputs'.info.cpu_per_pod)
            /\ Outputs'.obs[7] = FromQ(Outputs'.info.memory_per_pod)]_vars

\* a ScaleUp and then an IncreaseResourcesPerPod, both seen in the array
C33_Witness ==
    /\ call = "step" /\ last = 3 /\ num_pods = 2 /\ calls = 2
    /\ cpu_per_pod = Num(2 * InitCpu(variant))
    /\ StateAt(variant, state, 5) = R(2)
    /\ StateAt(variant, state, 6) = R(2 * InitCpu(variant))

\* C34: a step with ScaleUp or ScaleDown leaves cpu_per_pod and
\* memory_per_pod as they were, one with IncreaseResourcesPerPod or
\* DecreaseResourcesPerPod leaves num_pods, NoOp leaves all three; every
\* step adds exactly 1 to current_step and leaves max_steps.
C34_StepFrame ==
    [][call' = "step" /\ calls' = calls + 1 =>
        /\ last' \in {1, 2}
             => UNCHANGED <<cpu_per_pod, memory_per_pod>>
        /\ last' \in {3, 4} => UNCHANGED num_pods
        /\ last' = 0 => UNCHANGED <<num_pods, cpu_per_pod, memory_per_pod>>
        /\ current_step' = current_step + 1
        /\ UNCHANGED max_steps]_vars

\* an IncreaseResourcesPerPod at five pods
C34_Witness ==
    /\ call = "step" /\ last = 3 /\ calls = 1 /\ num_pods = 5
    /\ cpu_per_pod = Num(2 * InitCpu(variant))

\* C35: the observation returned by reset and by every step lies between
\* the low and the high bound of observation_space in each of its seven
\* entries.
C35_ObservationInBox ==
    call \in {"reset", "step"} => InBox(variant, Observation(variant, state))

-----------------------------------------------------------------------------
(* Claims about what the controller writes, against what it read *)

\* C36: of a cycle that read the service's ScalingConfig, the
\* configuration passed to change_settings.py has, after
\* DecreaseResourcesPerPod, no CPU or memory request or limit larger than
\* the one read, after IncreaseResourcesPerPod none smaller, after
\* ScaleDown no larger max_scale and after ScaleUp no smaller one.
C36_ActionDirection ==
    pc = "apply" /\ fetch = "ok" =>
        LET r == Quantities(cluster0)
            w == Quantities(PatchOf(cfg))
            a == action[1]
        IN  /\ a = 4 => /\ w.cpu_request <= r.cpu_request
                        /\ w.cpu_limit <= r.cpu_limit
                        /\ w.mem_request <= r.mem_request
                        /\ w.mem_limit <= r.mem_limit
            /\ a = 3 => /\ w.cpu_request >= r.cpu_request
                        /\ w.cpu_limit >= r.cpu_limit
                        /\ w.mem_request >= r.mem_request
                        /\ w.mem_limit >= r.mem_limit
            /\ a = 2 => w.max_scale <= r.max_scale
            /\ a = 1 => w.max_scale >= r.max_scale

\* the memory quantity a string of the cluster API stands for, in MiB, by
\* the unit table of parse_memory_usage: no suffix is bytes
MemoryMiB(s) == SciToRat(SciScale(parse_memory_usage(s).v, 0 - 20, 0))

\* cpu_request <= cpu_limit and mem_request <= mem_limit, as quantities
RequestsWithinLimits(k) ==
    /\ parse_cpu(k.cpu_request) <= parse_cpu(k.cpu_limit)
    /\ RatLeq(MemoryMiB(k.mem_request), MemoryMiB(k.mem_limit))

\* C37: when the ScalingConfig a cycle read has cpu_request <= cpu_limit
\* and mem_request <= mem_limit, so has the configuration the cycle passes
\* to change_settings.py, whatever the action.
C37_RequestWithinLimit ==
    pc = "apply" /\ fetch = "ok" /\ RequestsWithinLimits(cluster0)
        => RequestsWithinLimits(PatchOf(cfg))

-----------------------------------------------------------------------------
(* Claims about the pruning of revisions *)

\* C38: a run of delete_old_revisions runs kubectl delete on no revision
\* named by the service's latestCreatedRevisionName and on no revision of
\* another service; when it gets as far as its loop it runs it on every
\* other revision of the service; when the status has no
\* latestCreatedRevisionName it runs it on none.
C38_RevisionPruning ==
    [][mutator_calls' = mutator_calls + 1 =>
        \A all \in {revisions \cup revisions'} :
            /\ latest' \notin deletes'
            /\ \A r \in all : r.service # SERVICE_NAME
                  => r.name \notin deletes' /\ r \in revisions'
            /\ housekeeping' = "ok"
                  => \A r \in all : r.service = SERVICE_NAME /\ r.name # latest'
                        => r.name \in deletes'
            /\ housekeeping' = "no_latest" => deletes' = {}]_vars

\* two revisions of the service and one of another: the older one deleted
C38_Witness ==
    /\ result = "applied" /\ housekeeping = "ok"
    /\ latest = 2 /\ deletes = {1}
    /\ revisions = {[name |-> 2, service |-> SERVICE_NAME],
                    [name |-> 0, service |-> "other"]}

=============================================================================
